---- MODULE Spec2Model ----
(***************************************************************************)
(* Session and live-feed coordination layer of the MongoDB desktop client: *)
(* the connection registry, the cursor sessions, the change-stream         *)
(* subsystem (listener task, storage task, event buffers) and the query    *)
(* history, as implemented in src/src/app/commands.rs, src/src/app/state.rs *)
(* and src/src/mongo/cursor_engine.rs.                                     *)
(*                                                                         *)
(* Ids produced by Uuid::new_v4() are modelled as fresh numbers 1, 2, ...  *)
(* drawn from a counter; the id 0 is an id that was never issued.          *)
(* Change events are numbered 1, 2, ... in the order the driver's stream   *)
(* yields them; documents of a result stream are numbered by their         *)
(* position in that stream.                                                *)
(***************************************************************************)
EXTENDS Integers, Sequences, FiniteSets, TLC

(* ------------------------------ bounds -------------------------------- *)

MaxConns == 2
MaxStreams == 1
\* events a short driver change stream yields
MaxEvents == 3
\* events in flight between the listener and the storage task
MaxChannel == 2
\* largest explicit limit passed to get_change_stream_events
MaxLimit == 2
\* events a long driver change stream yields (more than the buffer holds)
MaxCapEvents == 1002
MaxSessions == 2
\* items of a short result stream
MaxDocs == 2
\* items of a long result stream (more than one batch)
LongDocs == 120
\* foreground callers invoking fetch_next concurrently
NumFetchers == 2
\* foreground callers invoking start_find / start_aggregate concurrently
NumStarters == 2
\* threads running commands and background tasks concurrently
NumThreads == 2
\* foreground callers invoking connect_db / disconnect_db concurrently
NumCallers == 2
\* a batch size inside the allowed range that a caller asks for
MaxBatch == 2
\* queries dispatched in a short run
MaxQueries == 3
\* latest reading of the system clock
MaxTime == 1
\* queries recorded in a long run (more than the history holds)
MaxCapQueries == 1002

(* ------------------------- program constants -------------------------- *)

\* commands.rs:615  if events.len() > 1000
MAX_BUFFERED_EVENTS == 1000
\* commands.rs:702  limit.unwrap_or(100)
DEFAULT_EVENT_LIMIT == 100
\* commands.rs:142  CursorSession { cursor, batch_size: 50 }
DEFAULT_BATCH_SIZE == 50
\* commands.rs:165  if history.len() > 1000
MAX_HISTORY == 1000
\* commands.rs:523  limit.unwrap_or(100)
DEFAULT_HISTORY_LIMIT == 100
\* cursor_engine.rs:26  size.max(1).min(1000)
MIN_BATCH_SIZE == 1
MAX_BATCH_SIZE == 1000

(* ------------------------------ state --------------------------------- *)

VARIABLES
    \* AppState (state.rs:32-40) and the static of state.rs:10
    clients,                \* ids of AppState.clients
    connections,            \* ids of AppState.connections
    cursors,                \* session id -> CursorSession
    query_history,          \* Vec<QueryHistoryEntry>
    change_streams,         \* stream id -> ChangeStreamInfo
    change_stream_senders,  \* stream ids holding a sender clone
    change_stream_events,   \* stream id -> Vec<Value>, the per-request copy
    CHANGE_STREAM_EVENTS,   \* stream id -> Vec<Value>, the process-wide static
    \* id generation
    next_conn, next_session, next_entry, next_stream,
    \* the system clock read by chrono::Utc::now()
    clock,
    \* what the last connection-registry command returned
    registry_reply,
    \* what the last get_query_history call returned
    history_result,
    \* what the last start_change_stream call returned
    watch_reply,
    \* caller -> the history entry its start_find / start_aggregate has built
    \* and not yet pushed
    start_pending,
    \* the mutexes of AppState and of the static, as the threads of the
    \* program take and release them
    lock_op,                \* thread -> the handler or task it runs, or "idle"
    lock_pc,                \* thread -> its position in that handler's locking
    held,                   \* thread -> the mutexes whose guard it holds
    \* caller -> [pc, id] of its connect_db or disconnect_db between the
    \* statements that lock the registry's maps
    reg_call,
    \* background tasks of start_change_stream
    event_rx,               \* stream id -> events sent and not yet received
    listener,               \* stream id -> [pc, yielded] of the listener task
    storage,                \* stream id -> pc of the storage task
    \* an in-flight get_change_stream_events call
    poll_pc, poll_stream, poll_result,
    \* in-flight fetch_next calls, one per foreground caller
    cursors_lock,           \* owner of the AppState.cursors mutex, 0 when free
    fetch_pc, fetch_arg, fetch_batch, fetch_result,
    \* history of the run, read by the properties only
    stopped,                \* stream ids for which stop_change_stream returned
    cleared,                \* stream id -> events buffered when it was cleared
    source,                 \* session id -> the result stream the driver opened
    fetch_start,            \* caller -> stream position when its fetch began
    delivered,              \* session id -> documents returned so far, in order
    owner,                  \* session id -> connection the query was started on
    cancelled,              \* issued session ids for which cancel_query returned
    fetch_gone,             \* caller -> its fetch was invoked after the owning
                            \* connection of the session was disconnected
    dispatched              \* queries handed to the driver so far

registryVars == <<clients, connections, next_conn, registry_reply>>
cursorVars == <<cursors, cursors_lock, next_session, fetch_pc, fetch_arg,
                fetch_batch, fetch_result, source, fetch_start, delivered,
                owner, cancelled, fetch_gone>>
historyVars == <<query_history, next_entry, clock, dispatched, history_result,
                 start_pending>>
feedVars == <<change_streams, change_stream_senders, change_stream_events,
              CHANGE_STREAM_EVENTS, next_stream, event_rx, listener, storage,
              stopped, cleared, watch_reply>>
pollVars == <<poll_pc, poll_stream, poll_result>>
lockVars == <<lock_op, lock_pc, held>>
stepVars == <<reg_call>>
vars == <<registryVars, cursorVars, historyVars, feedVars, pollVars, lockVars, stepVars>>

(* ----------------------------- helpers -------------------------------- *)

\* Option<T>: None is the empty sequence, Some(v) the one-element sequence.
None == << >>
Some(v) == <<v>>
UnwrapOr(opt, default) == IF opt = None THEN default ELSE opt[1]

\* HashMap::insert / HashMap::remove
MapInsert(m, k, v) == [x \in DOMAIN m \cup {k} |-> IF x = k THEN v ELSE m[x]]
MapRemove(m, k) == [x \in DOMAIN m \ {k} |-> m[x]]
EmptyMap == [x \in {} |-> 0]

Range(seq) == {seq[i] : i \in 1..Len(seq)}
Min(a, b) == IF a <= b THEN a ELSE b

Fetchers == 1..NumFetchers
Starters == 1..NumStarters
Threads == 1..NumThreads
Callers == 1..NumCallers
ConnInputs == 0..MaxConns
StreamInputs == 0..MaxStreams
SessionInputs == 0..MaxSessions

(* ------------------------------- Init --------------------------------- *)

\* main.rs:11-23: every map and the history start empty
Init ==
    /\ clients = {} /\ connections = {} /\ next_conn = 0
    /\ registry_reply = [op |-> "none", id |-> 0, kind |-> "none"]
    /\ cursors = EmptyMap /\ cursors_lock = 0 /\ next_session = 0
    /\ query_history = << >> /\ next_entry = 0
    /\ clock = 0 /\ dispatched = 0 /\ history_result = << >>
    /\ start_pending = [p \in Starters |-> None]
    /\ lock_op = [p \in Threads |-> "idle"]
    /\ lock_pc = [p \in Threads |-> 0]
    /\ held = [p \in Threads |-> {}]
    /\ reg_call = [p \in Callers |-> [pc |-> "idle", id |-> 0]]
    /\ change_streams = EmptyMap
    /\ change_stream_senders = {}
    /\ change_stream_events = EmptyMap
    /\ CHANGE_STREAM_EVENTS = EmptyMap
    /\ next_stream = 0
    /\ watch_reply = [connection_id |-> 0, kind |-> "none", id |-> 0]
    /\ event_rx = EmptyMap /\ listener = EmptyMap /\ storage = EmptyMap
    /\ poll_pc = "idle" /\ poll_stream = 0 /\ poll_result = << >>
    /\ fetch_pc = [p \in Fetchers |-> "idle"]
    /\ fetch_arg = [p \in Fetchers |-> 0]
    /\ fetch_batch = [p \in Fetchers |-> << >>]
    /\ fetch_result = [p \in Fetchers |-> [kind |-> "none"]]
    /\ stopped = {}
    /\ cleared = [s \in StreamInputs |-> {}]
    /\ source = EmptyMap
    /\ fetch_start = [p \in Fetchers |-> 0]
    /\ delivered = EmptyMap
    /\ owner = EmptyMap
    /\ cancelled = {}
    /\ fetch_gone = [p \in Fetchers |-> FALSE]

(* ------------------------ connection registry ------------------------- *)

\* the mutex taken without waiting for its holder
CursorsMutexIgnored == TRUE

\* state.cursors.lock() succeeds only while no guard is alive
CursorsMutexFree == cursors_lock = 0

\* connect_db registering the handle and the metadata before the server
\* has answered the ping
connect_db_registers_unverified(reachable) ==
    /\ next_conn < MaxConns
    /\ next_conn' = next_conn + 1
    /\ clients' = clients \cup {next_conn + 1}
    /\ connections' = connections \cup {next_conn + 1}
    /\ registry_reply' =
           IF reachable
           THEN [op |-> "connect_db", id |-> next_conn + 1, kind |-> "ok"]
           ELSE [op |-> "connect_db", id |-> 0, kind |-> "error"]
    /\ UNCHANGED <<cursorVars, historyVars, feedVars, pollVars, lockVars, stepVars>>

\* client::connect (client.rs:4-22) either pings the server successfully or
\* returns an error; connect_db (commands.rs:17-43) registers the handle and
\* the metadata under a fresh id only on success.
connect_db(reachable) ==
    /\ next_conn < MaxConns
    /\ IF reachable
       THEN /\ next_conn' = next_conn + 1
            /\ clients' = clients \cup {next_conn + 1}
            /\ connections' = connections \cup {next_conn + 1}
            /\ registry_reply' =
                   [op |-> "connect_db", id |-> next_conn + 1, kind |-> "ok"]
       ELSE /\ registry_reply' =
                   [op |-> "connect_db", id |-> 0, kind |-> "error"]
            /\ UNCHANGED <<clients, connections, next_conn>>
    /\ UNCHANGED <<cursorVars, historyVars, feedVars, pollVars, lockVars, stepVars>>

\* disconnect_db removing the handle and leaving the metadata registered
disconnect_db_keeps_info(connection_id) ==
    /\ connection_id <= next_conn
    /\ CursorsMutexFree
    /\ clients' = clients \ {connection_id}
    /\ registry_reply' =
           [op |-> "disconnect_db", id |-> connection_id, kind |-> "ok"]
    /\ UNCHANGED <<connections, next_conn, cursorVars, historyVars, feedVars,
                   pollVars, lockVars, stepVars>>

\* disconnect_db emptying both maps (clear() instead of remove(&id))
disconnect_db_clears_all(connection_id) ==
    /\ connection_id <= next_conn
    /\ CursorsMutexFree
    /\ clients' = {}
    /\ connections' = {}
    /\ registry_reply' =
           [op |-> "disconnect_db", id |-> connection_id, kind |-> "ok"]
    /\ UNCHANGED <<next_conn, cursorVars, historyVars, feedVars, pollVars, lockVars, stepVars>>

\* disconnect_db with the sweep its comment announces:
\* cursors.retain(|_, session| session is not of this connection)
disconnect_db_sweeps_cursors(connection_id) ==
    /\ connection_id <= next_conn
    /\ CursorsMutexFree
    /\ clients' = clients \ {connection_id}
    /\ connections' = connections \ {connection_id}
    /\ registry_reply' =
           [op |-> "disconnect_db", id |-> connection_id, kind |-> "ok"]
    /\ cursors' = [s \in {x \in DOMAIN cursors : owner[x] # connection_id}
                      |-> cursors[s]]
    /\ UNCHANGED <<cursors_lock, next_session, fetch_pc, fetch_arg,
                   fetch_batch, fetch_result, source, fetch_start, delivered,
                   owner, cancelled, fetch_gone>>
    /\ UNCHANGED <<next_conn, historyVars, feedVars, pollVars, lockVars, stepVars>>

\* disconnect_db (commands.rs:46-57): removes the handle and the metadata
\* and returns Ok(()); cursors.retain(|_, _| true) keeps every session, and
\* taking the cursors mutex for it waits while a fetch holds that mutex.
disconnect_db(connection_id) ==
    /\ connection_id <= next_conn
    /\ CursorsMutexFree
    /\ clients' = clients \ {connection_id}
    /\ connections' = connections \ {connection_id}
    /\ registry_reply' =
           [op |-> "disconnect_db", id |-> connection_id, kind |-> "ok"]
    /\ UNCHANGED <<next_conn, cursorVars, historyVars, feedVars, pollVars, lockVars, stepVars>>

\* The statements of connect_db and disconnect_db, each under its own
\* guard, as concurrent callers run them.

\* connect_db up to the first insert (commands.rs:17-39): the server
\* answered the ping, the id is generated and the handle is registered.
ConnectInsertClient(p) ==
    /\ reg_call[p].pc = "idle"
    /\ next_conn < MaxConns
    /\ next_conn' = next_conn + 1
    /\ clients' = clients \cup {next_conn + 1}
    /\ reg_call' = [reg_call EXCEPT ![p] = [pc |-> "insert_info", id |-> next_conn + 1]]
    /\ UNCHANGED <<connections, registry_reply>>
    /\ UNCHANGED <<cursorVars, historyVars, feedVars, pollVars, lockVars>>

\* the second insert and the return of the id (commands.rs:40-42)
ConnectInsertInfo(p) ==
    /\ reg_call[p].pc = "insert_info"
    /\ connections' = connections \cup {reg_call[p].id}
    /\ registry_reply' =
           [op |-> "connect_db", id |-> reg_call[p].id, kind |-> "ok"]
    /\ reg_call' = [reg_call EXCEPT ![p] = [pc |-> "idle", id |-> 0]]
    /\ UNCHANGED <<clients, next_conn>>
    /\ UNCHANGED <<cursorVars, historyVars, feedVars, pollVars, lockVars>>

\* The ids a caller can pass: an id is a fresh random UUID that nobody
\* holds before the connect_db that generated it has returned it.
Returned == 1..next_conn \ {reg_call[q].id : q \in Callers}

\* disconnect_db, first statement (commands.rs:50)
DisconnectRemoveClient(p, connection_id) ==
    /\ reg_call[p].pc = "idle"
    /\ connection_id = 0 \/ connection_id \in Returned
    /\ clients' = clients \ {connection_id}
    /\ reg_call' = [reg_call EXCEPT ![p] = [pc |-> "remove_info", id |-> connection_id]]
    /\ UNCHANGED <<connections, next_conn, registry_reply>>
    /\ UNCHANGED <<cursorVars, historyVars, feedVars, pollVars, lockVars>>

\* the second statement left out
DisconnectRemoveInfoSkipped(p) ==
    /\ reg_call[p].pc = "remove_info"
    /\ reg_call' = [reg_call EXCEPT ![p].pc = "retain_cursors"]
    /\ UNCHANGED <<clients, connections, next_conn, registry_reply>>
    /\ UNCHANGED <<cursorVars, historyVars, feedVars, pollVars, lockVars>>

\* second statement (commands.rs:51)
DisconnectRemoveInfo(p) ==
    /\ reg_call[p].pc = "remove_info"
    /\ connections' = connections \ {reg_call[p].id}
    /\ reg_call' = [reg_call EXCEPT ![p].pc = "retain_cursors"]
    /\ UNCHANGED <<clients, next_conn, registry_reply>>
    /\ UNCHANGED <<cursorVars, historyVars, feedVars, pollVars, lockVars>>

\* third statement and return (commands.rs:54-56): the cursors mutex is
\* taken, every session is retained, Ok(()) is returned
DisconnectRetainCursors(p) ==
    /\ reg_call[p].pc = "retain_cursors"
    /\ CursorsMutexFree
    /\ registry_reply' =
           [op |-> "disconnect_db", id |-> reg_call[p].id, kind |-> "ok"]
    /\ reg_call' = [reg_call EXCEPT ![p] = [pc |-> "idle", id |-> 0]]
    /\ UNCHANGED <<clients, connections, next_conn>>
    /\ UNCHANGED <<cursorVars, historyVars, feedVars, pollVars, lockVars>>

\* get_connection (commands.rs:71-78): the metadata, or "Connection not found"
get_connection(connection_id) ==
    /\ connection_id <= next_conn
    /\ registry_reply' =
           [op |-> "get_connection", id |-> connection_id,
            kind |-> IF connection_id \in connections THEN "ok" ELSE "not_found"]
    /\ UNCHANGED <<clients, connections, next_conn>>
    /\ UNCHANGED <<cursorVars, historyVars, feedVars, pollVars, lockVars, stepVars>>

\* get_client (commands.rs:80-83)
get_client(connection_id) == connection_id \in clients

\* list_databases (commands.rs:88-94): resolves the client first, as every
\* command that takes a connection id does, then asks the server.
list_databases(connection_id, outcome) ==
    /\ connection_id <= next_conn
    /\ registry_reply' =
           [op |-> "list_databases", id |-> connection_id,
            kind |-> IF get_client(connection_id) THEN outcome ELSE "not_found"]
    /\ UNCHANGED <<clients, connections, next_conn>>
    /\ UNCHANGED <<cursorVars, historyVars, feedVars, pollVars, lockVars, stepVars>>

(* ------------------------- change-stream feed ------------------------- *)

\* the append evicting the newest element (events.pop()) instead of the oldest
PushEventDropNewest(events, event) ==
    LET pushed == Append(events, event)
    IN IF Len(pushed) > 1000 THEN SubSeq(pushed, 1, 1000) ELSE pushed

\* the append putting the event at the head of the buffer (events.insert(0, event))
PushEventAtHead(events, event) ==
    LET pushed == <<event>> \o events
    IN IF Len(pushed) > 1000 THEN SubSeq(pushed, 1, 1000) ELSE pushed

\* The storage task's append (commands.rs:614-617): push, then drop the
\* oldest element when the length exceeds 1000.
PushEvent(events, event) ==
    LET pushed == Append(events, event)
    IN IF Len(pushed) > MAX_BUFFERED_EVENTS THEN Tail(pushed) ELSE pushed

\* events.iter().take(limit_val): the .rev() forgotten
RevTakeOldestFirst(events, n) == SubSeq(events, 1, Min(n, Len(events)))

\* events.iter().rev().take(limit_val).cloned().collect() (commands.rs:703-708)
RECURSIVE RevTake(_, _)
RevTake(events, n) ==
    IF n = 0 \/ events = << >> THEN << >>
    ELSE <<events[Len(events)]>> \o RevTake(SubSeq(events, 1, Len(events) - 1), n - 1)

\* the get_client of commands.rs:563 left out: the driver's answer alone
\* decides
WatchResultUnresolved(connection_id, outcome) == outcome

\* What start_change_stream has to return after its fallible steps, all of
\* them ahead of the first insert: get_client (commands.rs:563), the
\* filter's json_to_bson (569, 575) and the driver's watch (570-577).
\* outcome is what the codec and the driver answer: "bad_filter",
\* "driver_error" or "ok".
WatchResult(connection_id, outcome) ==
    IF get_client(connection_id) THEN outcome ELSE "not_found"

\* the info of a new stream registered with its flag already cleared
NewStreamInfoInactive(connection_id, operation_types) ==
    [connection_id |-> connection_id,
     operation_types |-> UnwrapOr(operation_types, << >>),
     is_active |-> FALSE]

\* ChangeStreamInfo as start_change_stream builds it (commands.rs:580-590):
\* operation_types.unwrap_or_default(), is_active: true
NewStreamInfo(connection_id, operation_types) ==
    [connection_id |-> connection_id,
     operation_types |-> UnwrapOr(operation_types, << >>),
     is_active |-> TRUE]

\* start_change_stream (commands.rs:553-651).  On success the info, the
\* sender, both buffers and the channel are registered and both background
\* tasks are spawned; on a failure the error is returned from 563-577 and
\* none of the inserts of 592-604 is reached.
start_change_stream(connection_id, outcome, operation_types) ==
    /\ next_stream < MaxStreams
    /\ LET result == WatchResult(connection_id, outcome) IN
       IF result = "ok"
       THEN LET stream_id == next_stream + 1 IN
            /\ next_stream' = stream_id
            /\ change_streams' = MapInsert(change_streams, stream_id,
                   NewStreamInfo(connection_id, operation_types))
            /\ change_stream_senders' = change_stream_senders \cup {stream_id}
            /\ change_stream_events' = MapInsert(change_stream_events, stream_id, << >>)
            /\ CHANGE_STREAM_EVENTS' = MapInsert(CHANGE_STREAM_EVENTS, stream_id, << >>)
            /\ event_rx' = MapInsert(event_rx, stream_id, << >>)
            /\ storage' = MapInsert(storage, stream_id, "running")
            /\ listener' = MapInsert(listener, stream_id,
                   [pc |-> "running", yielded |-> 0])
            /\ watch_reply' = [connection_id |-> connection_id, kind |-> "ok",
                               id |-> stream_id]
            /\ UNCHANGED <<stopped, cleared>>
       ELSE /\ watch_reply' = [connection_id |-> connection_id, kind |-> result,
                               id |-> 0]
            /\ UNCHANGED <<change_streams, change_stream_senders,
                           change_stream_events, CHANGE_STREAM_EVENTS,
                           next_stream, event_rx, listener, storage,
                           stopped, cleared>>
    /\ UNCHANGED <<registryVars, cursorVars, historyVars, pollVars, lockVars, stepVars>>

\* The operation kind of the n-th event of the driver's stream: the watched
\* collection sees an insert, then a delete, and so on in turn
\* (ChangeStreamEvent::operation_type of the event read at commands.rs:630).
OperationType(n) == IF n % 2 = 1 THEN "insert" ELSE "delete"

\* operation_types: Option<Vec<String>> of start_change_stream
OperationTypeInputs == {None, Some(<<"insert">>)}

\* The listener task (commands.rs:628-648), one iteration: stream.next()
\* resolves to an event, to a read error, or to the end of the stream.
\* The event is serialized and sent into the channel (633-635); the value
\* sent is the event's number.  watch_collection and watch_database build
\* the pipeline from the filter alone (change_streams.rs:9-13, 27-31), so
\* the stream yields the events of every operation kind.  The channel is unbounded in the program;
\* the listener is held back here once MaxChannel events are in flight.
ListenerEvent(stream_id, bound) ==
    /\ stream_id \in DOMAIN listener
    /\ listener[stream_id].pc = "running"
    /\ listener[stream_id].yielded < bound
    /\ Len(event_rx[stream_id]) < MaxChannel
    /\ listener' = [listener EXCEPT ![stream_id].yielded = @ + 1]
    /\ event_rx' = [event_rx EXCEPT
           ![stream_id] = Append(@, listener[stream_id].yielded + 1)]
    /\ UNCHANGED <<change_streams, change_stream_senders, change_stream_events,
                   CHANGE_STREAM_EVENTS, next_stream, watch_reply, storage, stopped, cleared>>
    /\ UNCHANGED <<registryVars, cursorVars, historyVars, pollVars, lockVars, stepVars>>

\* the listener unregistering its stream when the driver's stream fails
ListenerErrorRemoves(stream_id) ==
    /\ stream_id \in DOMAIN listener
    /\ listener[stream_id].pc = "running"
    /\ listener' = [listener EXCEPT ![stream_id].pc = "failed"]
    /\ change_streams' = MapRemove(change_streams, stream_id)
    /\ change_stream_senders' = change_stream_senders \ {stream_id}
    /\ change_stream_events' = MapRemove(change_stream_events, stream_id)
    /\ CHANGE_STREAM_EVENTS' = MapRemove(CHANGE_STREAM_EVENTS, stream_id)
    /\ UNCHANGED <<next_stream, watch_reply, event_rx, storage, stopped, cleared>>
    /\ UNCHANGED <<registryVars, cursorVars, historyVars, pollVars, lockVars, stepVars>>

\* Err(e): the flag is cleared if the info is still registered, then break
\* (commands.rs:637-645); the task returns and nothing starts it again.
ListenerError(stream_id) ==
    /\ stream_id \in DOMAIN listener
    /\ listener[stream_id].pc = "running"
    /\ listener' = [listener EXCEPT ![stream_id].pc = "failed"]
    /\ change_streams' =
           IF stream_id \in DOMAIN change_streams
           THEN [change_streams EXCEPT ![stream_id].is_active = FALSE]
           ELSE change_streams
    /\ UNCHANGED <<change_stream_senders, change_stream_events,
                   CHANGE_STREAM_EVENTS, next_stream, watch_reply, event_rx, storage,
                   stopped, cleared>>
    /\ UNCHANGED <<registryVars, cursorVars, historyVars, pollVars, lockVars, stepVars>>

\* None: the while-let loop of commands.rs:630 ends and the task returns.
ListenerEnd(stream_id) ==
    /\ stream_id \in DOMAIN listener
    /\ listener[stream_id].pc = "running"
    /\ listener' = [listener EXCEPT ![stream_id].pc = "done"]
    /\ UNCHANGED <<change_streams, change_stream_senders, change_stream_events,
                   CHANGE_STREAM_EVENTS, next_stream, watch_reply, event_rx, storage,
                   stopped, cleared>>
    /\ UNCHANGED <<registryVars, cursorVars, historyVars, pollVars, lockVars, stepVars>>

\* the storage task receiving an event and not storing it
StorageRecvDropping(stream_id) ==
    /\ stream_id \in DOMAIN storage
    /\ storage[stream_id] = "running"
    /\ event_rx[stream_id] # << >>
    /\ event_rx' = [event_rx EXCEPT ![stream_id] = Tail(@)]
    /\ UNCHANGED <<change_streams, change_stream_senders, change_stream_events,
                   CHANGE_STREAM_EVENTS, next_stream, watch_reply, listener,
                   storage, stopped, cleared>>
    /\ UNCHANGED <<registryVars, cursorVars, historyVars, pollVars, lockVars, stepVars>>

\* The storage task (commands.rs:610-621), one iteration: an event is
\* received and appended to the static buffer if the stream has an entry
\* there.
StorageRecv(stream_id) ==
    /\ stream_id \in DOMAIN storage
    /\ storage[stream_id] = "running"
    /\ event_rx[stream_id] # << >>
    /\ event_rx' = [event_rx EXCEPT ![stream_id] = Tail(@)]
    /\ CHANGE_STREAM_EVENTS' =
           IF stream_id \in DOMAIN CHANGE_STREAM_EVENTS
           THEN [CHANGE_STREAM_EVENTS EXCEPT
                    ![stream_id] = PushEvent(@, Head(event_rx[stream_id]))]
           ELSE CHANGE_STREAM_EVENTS
    /\ UNCHANGED <<change_streams, change_stream_senders, change_stream_events,
                   next_stream, watch_reply, listener, storage, stopped, cleared>>
    /\ UNCHANGED <<registryVars, cursorVars, historyVars, pollVars, lockVars, stepVars>>

\* event_rx.recv() yields None once the channel is empty and every sender
\* is dropped: the listener's event_tx (dropped when the listener returns)
\* and the clone kept in change_stream_senders (commands.rs:604).
StorageExit(stream_id) ==
    /\ stream_id \in DOMAIN storage
    /\ storage[stream_id] = "running"
    /\ event_rx[stream_id] = << >>
    /\ listener[stream_id].pc # "running"
    /\ stream_id \notin change_stream_senders
    /\ storage' = [storage EXCEPT ![stream_id] = "done"]
    /\ UNCHANGED <<change_streams, change_stream_senders, change_stream_events,
                   CHANGE_STREAM_EVENTS, next_stream, watch_reply, event_rx, listener,
                   stopped, cleared>>
    /\ UNCHANGED <<registryVars, cursorVars, historyVars, pollVars, lockVars, stepVars>>

\* stop_change_stream (commands.rs:654-667): the flag is cleared, then the
\* info, the sender and the per-request buffer are removed.
stop_change_stream(stream_id) ==
    /\ stream_id <= next_stream
    /\ change_streams' = MapRemove(change_streams, stream_id)
    /\ change_stream_senders' = change_stream_senders \ {stream_id}
    /\ change_stream_events' = MapRemove(change_stream_events, stream_id)
    /\ stopped' = stopped \cup {stream_id}
    /\ UNCHANGED <<CHANGE_STREAM_EVENTS, next_stream, watch_reply, event_rx, listener,
                   storage, cleared>>
    /\ UNCHANGED <<registryVars, cursorVars, historyVars, pollVars, lockVars, stepVars>>

\* list_change_streams (commands.rs:670-689): the infos, filtered by the
\* owning connection when one is given.
list_change_streams(connection_id) ==
    {[id |-> s, is_active |-> change_streams[s].is_active] :
        s \in {x \in DOMAIN change_streams :
                 connection_id = None
                 \/ change_streams[x].connection_id = UnwrapOr(connection_id, 0)}}

\* get_change_stream_events (commands.rs:692-722), first half: the static
\* buffer is read under its lock (698-708); an id without a static entry
\* returns the empty list (721).
PollRead(stream_id, limit) ==
    /\ poll_pc = "idle"
    /\ stream_id <= next_stream
    /\ poll_stream' = stream_id
    /\ IF stream_id \in DOMAIN CHANGE_STREAM_EVENTS
       THEN /\ poll_result' = RevTake(CHANGE_STREAM_EVENTS[stream_id],
                                      UnwrapOr(limit, DEFAULT_EVENT_LIMIT))
            /\ poll_pc' = "sync"
       ELSE /\ poll_result' = << >>
            /\ poll_pc' = "idle"
    /\ UNCHANGED <<registryVars, cursorVars, historyVars, feedVars, lockVars, stepVars>>

\* second half (711-717): the per-request copy, if the stream has one, is
\* overwritten with the static buffer as it is now.
PollSync ==
    /\ poll_pc = "sync"
    /\ poll_pc' = "idle"
    /\ change_stream_events' =
           IF poll_stream \in DOMAIN change_stream_events
           THEN [change_stream_events EXCEPT ![poll_stream] =
                    IF poll_stream \in DOMAIN CHANGE_STREAM_EVENTS
                    THEN CHANGE_STREAM_EVENTS[poll_stream] ELSE << >>]
           ELSE change_stream_events
    /\ UNCHANGED <<poll_stream, poll_result>>
    /\ UNCHANGED <<change_streams, change_stream_senders, CHANGE_STREAM_EVENTS,
                   next_stream, watch_reply, event_rx, listener, storage, stopped, cleared>>
    /\ UNCHANGED <<registryVars, cursorVars, historyVars, lockVars, stepVars>>

\* clear_change_stream_events (commands.rs:742-751)
clear_change_stream_events(stream_id) ==
    /\ stream_id <= next_stream
    /\ change_stream_events' =
           IF stream_id \in DOMAIN change_stream_events
           THEN [change_stream_events EXCEPT ![stream_id] = << >>]
           ELSE change_stream_events
    /\ cleared' = [cleared EXCEPT ![stream_id] =
           @ \cup (IF stream_id \in DOMAIN change_stream_events
                   THEN Range(change_stream_events[stream_id]) ELSE {})
             \cup (IF stream_id \in DOMAIN CHANGE_STREAM_EVENTS
                   THEN Range(CHANGE_STREAM_EVENTS[stream_id]) ELSE {})]
    /\ UNCHANGED <<change_streams, change_stream_senders, CHANGE_STREAM_EVENTS,
                   next_stream, watch_reply, event_rx, listener, storage, stopped>>
    /\ UNCHANGED <<registryVars, cursorVars, historyVars, pollVars, lockVars, stepVars>>

\* poll_change_stream_events (commands.rs:725-738): the length of the
\* per-request copy of the stream's events in AppState.change_stream_events,
\* 0 for an id that has none.
poll_change_stream_events(stream_id) ==
    IF stream_id \in DOMAIN change_stream_events
    THEN Len(change_stream_events[stream_id])
    ELSE 0

\* limit: Option<usize> of get_change_stream_events
PollLimits == {None} \cup {Some(n) : n \in 0..MaxLimit}

\* The change-stream feed of one watch over a short driver stream.
NextFeed ==
    \/ next_conn = 0 /\ connect_db(TRUE)
    \/ \E c \in 1..MaxConns : disconnect_db(c)
    \/ \E c \in ConnInputs, outcome \in {"ok", "bad_filter", "driver_error"},
          ops \in OperationTypeInputs :
           next_stream = 0 /\ start_change_stream(c, outcome, ops)
    \/ \E s \in StreamInputs : ListenerEvent(s, MaxEvents)
    \/ \E s \in StreamInputs : ListenerError(s)
    \/ \E s \in StreamInputs : ListenerEnd(s)
    \/ \E s \in StreamInputs : StorageRecv(s)
    \/ \E s \in StreamInputs : StorageExit(s)
    \/ \E s \in StreamInputs : stop_change_stream(s)
    \/ \E s \in StreamInputs, limit \in PollLimits : PollRead(s, limit)
    \/ PollSync
    \/ \E s \in StreamInputs : clear_change_stream_events(s)

SpecFeed == Init /\ [][NextFeed]_vars

\* The same feed with a storage task that is scheduled whenever an event
\* waits in its channel: it is a spawned tokio task (commands.rs:610) woken
\* by every send.
SpecFeedFair ==
    SpecFeed /\ \A s \in StreamInputs : WF_vars(StorageRecv(s))

\* The change-stream feed under a long-running driver stream: one watch
\* whose events overflow the buffer.
NextFeedCap ==
    \/ next_conn = 0 /\ connect_db(TRUE)
    \/ \E c \in ConnInputs : next_stream = 0 /\ start_change_stream(c, "ok", None)
    \/ \E s \in StreamInputs : ListenerEvent(s, MaxCapEvents)
    \/ \E s \in StreamInputs : StorageRecv(s)

SpecFeedCap == Init /\ [][NextFeedCap]_vars

(* --------------------------- cursor sessions -------------------------- *)

\* A result stream the driver may open: each item is a document ("doc") or
\* a per-item failure ("err").  Short streams take every shape; the long
\* ones have more documents than one batch holds, without and with a failing
\* item near the head.
RECURSIVE StreamsOfLen(_)
StreamsOfLen(n) ==
    IF n = 0 THEN {<< >>}
    ELSE {Append(s, x) : s \in StreamsOfLen(n - 1), x \in {"doc", "err"}}
ShortStreams == UNION {StreamsOfLen(n) : n \in 0..MaxDocs}
LongStreams ==
    {[i \in 1..LongDocs |-> "doc"],
     [i \in 1..LongDocs |-> IF i = 2 THEN "err" ELSE "doc"]}

\* serde_json::to_value(d) of fetch_next (commands.rs:303-309); a Document
\* always has a JSON form
to_value(d) == [json |-> d]

\* the push evicting the newest entry (history.pop()) instead of the oldest
PushHistoryDropNewest(history, entry) ==
    LET pushed == Append(history, entry)
    IN IF Len(pushed) > 1000 THEN SubSeq(pushed, 1, 1000) ELSE pushed

\* QueryHistoryEntry pushed by start_find / start_aggregate, then the
\* eviction of commands.rs:165-167 / 215-217
PushHistory(history, entry) ==
    LET pushed == Append(history, entry)
    IN IF Len(pushed) > MAX_HISTORY THEN Tail(pushed) ELSE pushed

\* The common body of start_find (commands.rs:110-170) and start_aggregate
\* (173-220): resolve the client, convert the parameters, run the query;
\* a driver error returns before anything is written (the `?` of line 135 /
\* 191).  On success register the session with batch size 50 and record
\* the history entry, stamped with the clock.
StartQuery(connection_id, outcome, stream, query_type) ==
    /\ connection_id <= next_conn
    /\ IF get_client(connection_id) /\ outcome = "ok"
       THEN LET session_id == next_session + 1 IN
            /\ CursorsMutexFree
            /\ next_session' = session_id
            /\ cursors' = MapInsert(cursors, session_id,
                   [stream |-> stream, pos |-> 0, batch_size |-> DEFAULT_BATCH_SIZE])
            /\ source' = MapInsert(source, session_id, stream)
            /\ delivered' = MapInsert(delivered, session_id, << >>)
            /\ owner' = MapInsert(owner, session_id, connection_id)
            /\ next_entry' = next_entry + 1
            /\ dispatched' = dispatched + 1
            /\ query_history' = PushHistory(query_history,
                   [id |-> next_entry + 1, connection_id |-> connection_id,
                    query_type |-> query_type, executed_at |-> clock])
            /\ UNCHANGED <<cursors_lock, fetch_pc, fetch_arg, fetch_batch,
                           fetch_result, fetch_start, cancelled, fetch_gone>>
            /\ UNCHANGED <<clock, history_result, start_pending>>
       ELSE IF get_client(connection_id) /\ outcome = "driver_error"
       THEN /\ dispatched' = dispatched + 1
            /\ UNCHANGED <<query_history, next_entry, clock, history_result,
                           start_pending>>
            /\ UNCHANGED cursorVars
       ELSE UNCHANGED <<cursorVars, historyVars>>
    /\ UNCHANGED <<registryVars, feedVars, pollVars, lockVars, stepVars>>

start_find(connection_id, outcome, stream) ==
    StartQuery(connection_id, outcome, stream, "find")

start_aggregate(connection_id, outcome, stream) ==
    StartQuery(connection_id, outcome, stream, "aggregate")

\* A successful start_find / start_aggregate of caller p up to the point
\* where its history entry is built (commands.rs:110-161, 173-211): the
\* session is registered under the cursors lock, which is released again
\* (140-143), and the entry is stamped with chrono::Utc::now() (159, 209).
\* The history lock is not taken yet.
StartQueryOpen(p, connection_id, stream, query_type) ==
    /\ start_pending[p] = None
    /\ get_client(connection_id)
    /\ CursorsMutexFree
    /\ LET session_id == next_session + 1 IN
       /\ next_session' = session_id
       /\ cursors' = MapInsert(cursors, session_id,
              [stream |-> stream, pos |-> 0, batch_size |-> DEFAULT_BATCH_SIZE])
       /\ source' = MapInsert(source, session_id, stream)
       /\ delivered' = MapInsert(delivered, session_id, << >>)
       /\ owner' = MapInsert(owner, session_id, connection_id)
    /\ next_entry' = next_entry + 1
    /\ dispatched' = dispatched + 1
    /\ start_pending' = [start_pending EXCEPT ![p] =
           Some([id |-> next_entry + 1, connection_id |-> connection_id,
                 query_type |-> query_type, executed_at |-> clock])]
    /\ UNCHANGED <<cursors_lock, fetch_pc, fetch_arg, fetch_batch,
                   fetch_result, fetch_start, cancelled, fetch_gone>>
    /\ UNCHANGED <<query_history, clock, history_result>>
    /\ UNCHANGED <<registryVars, feedVars, pollVars, lockVars, stepVars>>

\* The rest of the call (commands.rs:163-169, 213-219): the history lock is
\* taken, the entry is pushed, the oldest one evicted beyond 1000 entries,
\* and the session id is returned.
StartQueryRecord(p) ==
    /\ start_pending[p] # None
    /\ query_history' = PushHistory(query_history, start_pending[p][1])
    /\ start_pending' = [start_pending EXCEPT ![p] = None]
    /\ UNCHANGED <<next_entry, clock, dispatched, history_result>>
    /\ UNCHANGED <<registryVars, cursorVars, feedVars, pollVars, lockVars, stepVars>>

\* fetch_next is invoked by caller p (commands.rs:295-298)
FetchCall(p, session_id) ==
    /\ fetch_pc[p] = "idle"
    /\ session_id <= next_session
    /\ fetch_pc' = [fetch_pc EXCEPT ![p] = "lock"]
    /\ fetch_arg' = [fetch_arg EXCEPT ![p] = session_id]
    /\ fetch_result' = [fetch_result EXCEPT ![p] = [kind |-> "none"]]
    /\ fetch_batch' = [fetch_batch EXCEPT ![p] = << >>]
    /\ fetch_gone' = [fetch_gone EXCEPT ![p] =
           session_id \in DOMAIN owner /\ owner[session_id] \notin clients]
    /\ UNCHANGED <<cursors, cursors_lock, next_session, source, fetch_start,
                   delivered, owner, cancelled>>
    /\ UNCHANGED <<registryVars, historyVars, feedVars, pollVars, lockVars, stepVars>>

\* the lookup refusing a session whose stream is exhausted
SessionFoundAndLive(session_id) ==
    /\ session_id \in DOMAIN cursors
    /\ cursors[session_id].pos < Len(cursors[session_id].stream)

\* cursors.get_mut(&session_id) of fetch_next (commands.rs:300)
SessionFound(session_id) == session_id \in DOMAIN cursors

\* commands.rs:299-300: the cursors mutex is taken; an unknown id returns
\* "Invalid session ID" (and drops the guard), a known one enters
\* next_batch with the guard alive.
FetchLock(p) ==
    /\ fetch_pc[p] = "lock"
    /\ CursorsMutexFree
    /\ IF SessionFound(fetch_arg[p])
       THEN /\ cursors_lock' = p
            /\ fetch_pc' = [fetch_pc EXCEPT ![p] = "next"]
            /\ fetch_start' = [fetch_start EXCEPT ![p] = cursors[fetch_arg[p]].pos]
            /\ UNCHANGED fetch_result
       ELSE /\ fetch_pc' = [fetch_pc EXCEPT ![p] = "idle"]
            /\ fetch_result' = [fetch_result EXCEPT ![p] = [kind |-> "err"]]
            /\ UNCHANGED <<cursors_lock, fetch_start>>
    /\ UNCHANGED <<cursors, next_session, fetch_arg, fetch_batch, source,
                   delivered, owner, cancelled, fetch_gone>>
    /\ UNCHANGED <<registryVars, historyVars, feedVars, pollVars, lockVars, stepVars>>

\* the loop running one iteration too many (0..=self.batch_size)
LoopDoneInclusive(count, batch_size) == count > batch_size

\* for _ in 0..self.batch_size (cursor_engine.rs:12): the loop ends once
\* batch_size items were taken
LoopDone(count, batch_size) == count >= batch_size

\* CursorSession::next_batch (cursor_engine.rs:10-23), one iteration:
\* cursor.next().await resolves to a document (pushed), to an error (break)
\* or to None (break).  batch_size is at least 1, so the loop body runs at
\* least once.  When the loop ends fetch_next converts the batch and
\* returns, which drops the guard (commands.rs:303-311).
FetchNext(p) ==
    /\ fetch_pc[p] = "next"
    /\ fetch_arg[p] \in DOMAIN cursors
    /\ LET session_id == fetch_arg[p]
           session == cursors[session_id]
           more == session.pos < Len(session.stream)
           item == session.stream[session.pos + 1]
           batch == IF more /\ item = "doc"
                    THEN Append(fetch_batch[p], session.pos + 1)
                    ELSE fetch_batch[p]
           finished == \/ ~more
                       \/ item = "err"
                       \/ LoopDone(Len(batch), session.batch_size)
       IN /\ cursors' = [cursors EXCEPT ![session_id].pos =
                            IF more THEN @ + 1 ELSE @]
          /\ IF finished
             THEN /\ fetch_pc' = [fetch_pc EXCEPT ![p] = "idle"]
                  /\ fetch_result' = [fetch_result EXCEPT ![p] =
                         [kind |-> "ok",
                          docs |-> [i \in 1..Len(batch) |-> to_value(batch[i])]]]
                  /\ fetch_batch' = [fetch_batch EXCEPT ![p] = << >>]
                  /\ cursors_lock' = 0
                  /\ delivered' = [delivered EXCEPT ![session_id] = @ \o batch]
             ELSE /\ fetch_batch' = [fetch_batch EXCEPT ![p] = batch]
                  /\ UNCHANGED <<fetch_pc, fetch_result, cursors_lock, delivered>>
    /\ UNCHANGED <<next_session, fetch_arg, source, fetch_start, owner,
                   cancelled, fetch_gone>>
    /\ UNCHANGED <<registryVars, historyVars, feedVars, pollVars, lockVars, stepVars>>

\* cancel_query leaving the session in the map
cancel_query_keeps(session_id) ==
    /\ session_id <= next_session
    /\ CursorsMutexFree
    /\ cancelled' = cancelled \cup ({session_id} \cap 1..next_session)
    /\ UNCHANGED <<cursors, cursors_lock, next_session, fetch_pc, fetch_arg,
                   fetch_batch, fetch_result, source, fetch_start, delivered,
                   owner, fetch_gone>>
    /\ UNCHANGED <<registryVars, historyVars, feedVars, pollVars, lockVars, stepVars>>

\* cancel_query emptying the session map (cursors.clear())
cancel_query_clears(session_id) ==
    /\ session_id <= next_session
    /\ CursorsMutexFree
    /\ cursors' = EmptyMap
    /\ cancelled' = cancelled \cup ({session_id} \cap 1..next_session)
    /\ UNCHANGED <<cursors_lock, next_session, fetch_pc, fetch_arg, fetch_batch,
                   fetch_result, source, fetch_start, delivered, owner,
                   fetch_gone>>
    /\ UNCHANGED <<registryVars, historyVars, feedVars, pollVars, lockVars, stepVars>>

\* cancel_query (commands.rs:315-321): removes the session if it is there
\* and returns Ok(()) either way
cancel_query(session_id) ==
    /\ session_id <= next_session
    /\ CursorsMutexFree
    /\ cursors' = MapRemove(cursors, session_id)
    /\ cancelled' = cancelled \cup ({session_id} \cap 1..next_session)
    /\ UNCHANGED <<cursors_lock, next_session, fetch_pc, fetch_arg, fetch_batch,
                   fetch_result, source, fetch_start, delivered, owner,
                   fetch_gone>>
    /\ UNCHANGED <<registryVars, historyVars, feedVars, pollVars, lockVars, stepVars>>

\* set_batch_size storing the requested size as it is
ClampBatchSizeNone(size) == size

\* size.max(1).min(1000) (cursor_engine.rs:26)
ClampBatchSize(size) ==
    LET raised == IF size >= MIN_BATCH_SIZE THEN size ELSE MIN_BATCH_SIZE
    IN IF raised <= MAX_BATCH_SIZE THEN raised ELSE MAX_BATCH_SIZE

\* CursorSession::set_batch_size (cursor_engine.rs:25-27), applied to a
\* registered session; &mut CursorSession is reachable only through the
\* cursors mutex.
set_batch_size(session_id, size) ==
    /\ session_id \in DOMAIN cursors
    /\ CursorsMutexFree
    /\ cursors' = [cursors EXCEPT ![session_id].batch_size = ClampBatchSize(size)]
    /\ UNCHANGED <<cursors_lock, next_session, fetch_pc, fetch_arg, fetch_batch,
                   fetch_result, source, fetch_start, delivered, owner,
                   cancelled, fetch_gone>>
    /\ UNCHANGED <<registryVars, historyVars, feedVars, pollVars, lockVars, stepVars>>

\* sizes a caller passes to set_batch_size: below the range, inside it and
\* above it
BatchSizeInputs == {0, MaxBatch, MAX_BATCH_SIZE + 1}

\* The cursor sessions with two foreground callers.
NextCursor ==
    \/ next_conn = 0 /\ connect_db(TRUE)
    \/ \E c \in ConnInputs, stream \in ShortStreams :
           next_session < MaxSessions /\ start_find(c, "ok", stream)
    \/ \E c \in ConnInputs, stream \in ShortStreams :
           next_session < MaxSessions /\ start_aggregate(c, "ok", stream)
    \/ \E p \in Fetchers, s \in SessionInputs : FetchCall(p, s)
    \/ \E p \in Fetchers : FetchLock(p)
    \/ \E p \in Fetchers : FetchNext(p)
    \/ \E s \in SessionInputs : cancel_query(s)

SpecCursor == Init /\ [][NextCursor]_vars

\* One session over a result stream longer than a batch, fetched by the
\* foreground callers concurrently.
NextCursorLong ==
    \/ next_conn = 0 /\ connect_db(TRUE)
    \/ \E c \in ConnInputs, stream \in LongStreams :
           next_session = 0 /\ start_find(c, "ok", stream)
    \/ \E p \in Fetchers, s \in SessionInputs : FetchCall(p, s)
    \/ \E p \in Fetchers : FetchLock(p)
    \/ \E p \in Fetchers : FetchNext(p)
    \/ \E s \in SessionInputs : cancel_query(s)

SpecCursorLong == Init /\ [][NextCursorLong]_vars

\* One session that is fetched while its connection may be disconnected
\* and the session cancelled.
NextCursorConn ==
    \/ next_conn = 0 /\ connect_db(TRUE)
    \/ \E c \in 1..MaxConns : disconnect_db(c)
    \/ \E c \in ConnInputs, stream \in ShortStreams :
           next_session = 0 /\ start_find(c, "ok", stream)
    \/ \E p \in Fetchers, s \in SessionInputs : FetchCall(p, s)
    \/ \E p \in Fetchers : FetchLock(p)
    \/ \E p \in Fetchers : FetchNext(p)
    \/ \E s \in SessionInputs : cancel_query(s)

SpecCursorConn == Init /\ [][NextCursorConn]_vars

\* Sessions over one-document result streams, fetched and cancelled by the
\* foreground callers.
NextCursorCancel ==
    \/ next_conn = 0 /\ connect_db(TRUE)
    \/ \E c \in ConnInputs :
           next_session < MaxSessions /\ start_find(c, "ok", <<"doc">>)
    \/ \E p \in Fetchers, s \in SessionInputs : FetchCall(p, s)
    \/ \E p \in Fetchers : FetchLock(p)
    \/ \E p \in Fetchers : FetchNext(p)
    \/ \E s \in SessionInputs : cancel_query(s)

SpecCursorCancel == Init /\ [][NextCursorCancel]_vars

\* One session whose batch size is changed between fetches.
NextBatch ==
    \/ next_conn = 0 /\ connect_db(TRUE)
    \/ \E c \in ConnInputs, stream \in ShortStreams :
           next_session = 0 /\ start_find(c, "ok", stream)
    \/ \E s \in SessionInputs, size \in BatchSizeInputs : set_batch_size(s, size)
    \/ \E p \in Fetchers, s \in SessionInputs : FetchCall(p, s)
    \/ \E p \in Fetchers : FetchLock(p)
    \/ \E p \in Fetchers : FetchNext(p)

SpecBatch == Init /\ [][NextBatch]_vars

(* ---------------------------- query history --------------------------- *)

\* chrono::Utc::now() (commands.rs:159, 209) reads the system clock, which
\* may stand still between two queries and may be set forward or back.
Tick(now) ==
    /\ now # clock
    /\ clock' = now
    /\ UNCHANGED <<query_history, next_entry, dispatched, history_result,
                   start_pending>>
    /\ UNCHANGED <<registryVars, cursorVars, feedVars, pollVars, lockVars, stepVars>>

\* filtered.retain(|entry| entry.connection_id == conn_id) when a
\* connection id is given (commands.rs:516-520)
FilterHistory(history, connection_id) ==
    LET Keep(entry) == connection_id = None \/ entry.connection_id = connection_id[1]
    IN SelectSeq(history, Keep)

\* the listing returned in stored order, the sort forgotten
SortNewestFirstSkipped(entries) == entries

\* filtered.sort_by(|a, b| b.executed_at.cmp(&a.executed_at))
\* (commands.rs:522): a stable sort, later timestamps first; each entry is
\* inserted behind the entries that are not older than it.
RECURSIVE SortNewestFirst(_)
SortNewestFirst(entries) ==
    IF entries = << >> THEN << >>
    ELSE LET n == Len(entries)
             entry == entries[n]
             sorted == SortNewestFirst(SubSeq(entries, 1, n - 1))
             ahead == Cardinality({i \in 1..Len(sorted) :
                          sorted[i].executed_at >= entry.executed_at})
         IN SubSeq(sorted, 1, ahead) \o <<entry>>
                \o SubSeq(sorted, ahead + 1, Len(sorted))

\* get_query_history (commands.rs:508-532): filter, sort, take the first
\* limit entries (100 when no limit is given), serialize each.
get_query_history(limit, connection_id) ==
    /\ IF connection_id = None THEN TRUE ELSE connection_id[1] <= next_conn
    /\ LET filtered == SortNewestFirst(FilterHistory(query_history, connection_id))
           limit_val == UnwrapOr(limit, DEFAULT_HISTORY_LIMIT)
           taken == SubSeq(filtered, 1, Min(limit_val, Len(filtered)))
       IN history_result' = [i \in 1..Len(taken) |-> to_value(taken[i])]
    /\ UNCHANGED <<query_history, next_entry, clock, dispatched, start_pending>>
    /\ UNCHANGED <<registryVars, cursorVars, feedVars, pollVars, lockVars, stepVars>>

\* a retain whose predicate is inverted: only the named entry is kept
RetainOnly(history, entry_id) ==
    LET Keep(entry) == entry.id = entry_id
    IN SelectSeq(history, Keep)

\* history.retain(|entry| entry.id != entry_id) (commands.rs:546)
RetainOthers(history, entry_id) ==
    LET Keep(entry) == entry.id # entry_id
    IN SelectSeq(history, Keep)

\* clear_query_history (commands.rs:535-538): the log is emptied; the
\* command has no failing path and returns Ok(()).
clear_query_history ==
    /\ query_history' = << >>
    /\ UNCHANGED <<next_entry, clock, dispatched, history_result, start_pending>>
    /\ UNCHANGED <<registryVars, cursorVars, feedVars, pollVars, lockVars, stepVars>>

\* delete_query_history_entry (commands.rs:541-548): the entries with the
\* given id are dropped; the command returns Ok(()) whether or not an
\* entry had that id.
delete_query_history_entry(entry_id) ==
    /\ entry_id <= next_entry
    /\ query_history' = RetainOthers(query_history, entry_id)
    /\ UNCHANGED <<next_entry, clock, dispatched, history_result, start_pending>>
    /\ UNCHANGED <<registryVars, cursorVars, feedVars, pollVars, lockVars, stepVars>>

\* limit: Option<usize> and connection_id: Option<String> of get_query_history
HistoryLimits == {None} \cup {Some(n) : n \in 0..MaxLimit}
HistoryFilters == {None} \cup {Some(c) : c \in 1..MaxConns}

\* The query history: queries on two connections, stamped by a clock that
\* may stand still or step back, and listings of the history.
NextHistory ==
    \/ connect_db(TRUE)
    \/ \E now \in 0..MaxTime : Tick(now)
    \/ \E c \in ConnInputs :
           next_session < MaxSessions /\ start_find(c, "ok", << >>)
    \/ \E limit \in HistoryLimits, c \in HistoryFilters :
           get_query_history(limit, c)

SpecHistory == Init /\ [][NextHistory]_vars

\* The recording of queries: finds and aggregates on two connections that
\* fail before the driver is called, fail in the driver, or succeed.
NextHistoryRecord ==
    \/ connect_db(TRUE)
    \/ \E c \in ConnInputs, outcome \in {"ok", "bad_json", "driver_error"} :
           dispatched < MaxQueries /\ start_find(c, outcome, << >>)
    \/ \E c \in ConnInputs, outcome \in {"ok", "bad_json", "driver_error"} :
           dispatched < MaxQueries /\ start_aggregate(c, outcome, << >>)

SpecHistoryRecord == Init /\ [][NextHistoryRecord]_vars

\* The editing of the history: queries on two connections, deletions of
\* single entries (id 0 was never issued) and clearings of the log.
NextHistoryEdit ==
    \/ connect_db(TRUE)
    \/ \E c \in ConnInputs :
           dispatched < MaxQueries /\ start_find(c, "ok", << >>)
    \/ \E c \in ConnInputs :
           dispatched < MaxQueries /\ start_aggregate(c, "ok", << >>)
    \/ \E e \in 0..MaxQueries : delete_query_history_entry(e)
    \/ clear_query_history

SpecHistoryEdit == Init /\ [][NextHistoryEdit]_vars

\* Finds and aggregates started by concurrent callers on one connection,
\* under a clock that only moves forward.
NextHistoryConcurrent ==
    \/ next_conn = 0 /\ connect_db(TRUE)
    \/ clock < MaxTime /\ Tick(clock + 1)
    \/ \E p \in Starters, c \in ConnInputs, query_type \in {"find", "aggregate"} :
           next_session < MaxSessions /\ StartQueryOpen(p, c, << >>, query_type)
    \/ \E p \in Starters : StartQueryRecord(p)

SpecHistoryConcurrent == Init /\ [][NextHistoryConcurrent]_vars

\* The connection registry with two connections, and the commands that
\* resolve a connection id before doing their work.
NextRegistry ==
    \/ \E reachable \in BOOLEAN : connect_db(reachable)
    \/ \E c \in ConnInputs : disconnect_db(c)
    \/ \E c \in ConnInputs : get_connection(c)
    \/ \E c \in ConnInputs, outcome \in {"ok", "driver_error"} :
           list_databases(c, outcome)
    \/ \E c \in ConnInputs :
           next_session < MaxSessions /\ start_find(c, "ok", << >>)
    \/ \E c \in ConnInputs : start_change_stream(c, "ok", None)

SpecRegistry == Init /\ [][NextRegistry]_vars

\* The registry under concurrent callers of connect_db and disconnect_db,
\* statement by statement, and lookups in between.
NextRegistrySteps ==
    \/ \E p \in Callers : ConnectInsertClient(p)
    \/ \E p \in Callers : ConnectInsertInfo(p)
    \/ \E p \in Callers, c \in ConnInputs : DisconnectRemoveClient(p, c)
    \/ \E p \in Callers : DisconnectRemoveInfo(p)
    \/ \E p \in Callers : DisconnectRetainCursors(p)
    \/ \E c \in ConnInputs : get_connection(c)
    \/ \E c \in ConnInputs : list_databases(c, "ok")

SpecRegistrySteps == Init /\ [][NextRegistrySteps]_vars

\* The query history under a long run of queries on one connection.
NextHistoryCap ==
    \/ next_conn = 0 /\ connect_db(TRUE)
    \/ \E c \in ConnInputs :
           next_session < MaxCapQueries /\ start_find(c, "ok", << >>)

SpecHistoryCap == Init /\ [][NextHistoryCap]_vars

(* ---------------------------- lock discipline ------------------------- *)

\* The component each mutex belongs to: the connection registry
\* (state.rs:33-34), the cursor sessions (35), the history log (36) and the
\* change feed (37-39 and the static of state.rs:10).
Component(mutex) ==
    CASE mutex \in {"clients", "connections"} -> "registry"
      [] mutex = "cursors" -> "cursor"
      [] mutex = "query_history" -> "history"
      [] mutex \in {"change_streams", "change_stream_senders",
                    "change_stream_events", "CHANGE_STREAM_EVENTS"} -> "feed"

\* state.m.lock()?.f(..): the guard is a temporary of one statement, or a
\* local of a block that takes no other lock
Guarded(mutex) == <<<<"lock", mutex>>, <<"unlock", mutex>>>>

\* The locking of each handler and task, in program order.
\* connect_db: commands.rs:39-40
connect_db_locks == Guarded("clients") \o Guarded("connections")
\* disconnect_db: commands.rs:50-54
disconnect_db_locks ==
    Guarded("clients") \o Guarded("connections") \o Guarded("cursors")
\* list_connections (61) and get_connection (75)
list_connections_locks == Guarded("connections")
get_connection_locks == Guarded("connections")
\* get_client (80-83), all that list_databases and the other commands on
\* a connection lock (92, 102, 232, ..., 863)
get_client_locks == Guarded("clients")

\* start_find with the history pushed while the cursors guard is alive
start_find_locks_nested ==
    get_client_locks \o
    <<<<"lock", "cursors">>, <<"lock", "query_history">>,
      <<"unlock", "query_history">>, <<"unlock", "cursors">>>>

\* start_find: get_client (122), the insert into cursors (140-143), the
\* history guard from line 163 to the end of the function
start_find_locks ==
    get_client_locks \o Guarded("cursors") \o Guarded("query_history")
\* start_aggregate: 181, 196-199, 213
start_aggregate_locks ==
    get_client_locks \o Guarded("cursors") \o Guarded("query_history")
\* fetch_next: the cursors guard of line 299 lives across next_batch().await
fetch_next_locks ==
    <<<<"lock", "cursors">>, <<"await", "next_batch">>, <<"unlock", "cursors">>>>
\* cancel_query: 319
cancel_query_locks == Guarded("cursors")
\* get_query_history (513), clear_query_history (536),
\* delete_query_history_entry (545)
get_query_history_locks == Guarded("query_history")
clear_query_history_locks == Guarded("query_history")
delete_query_history_entry_locks == Guarded("query_history")
\* start_change_stream: 561, 592, 593, 596, 598-600, 604
start_change_stream_locks ==
    get_client_locks \o Guarded("change_streams")
        \o Guarded("change_stream_senders") \o Guarded("change_stream_events")
        \o Guarded("CHANGE_STREAM_EVENTS") \o Guarded("change_stream_senders")
\* the storage task re-syncing the per-request copy itself, under the
\* static buffer's guard
storage_task_locks_syncing ==
    <<<<"lock", "CHANGE_STREAM_EVENTS">>, <<"lock", "change_stream_events">>,
      <<"unlock", "change_stream_events">>, <<"unlock", "CHANGE_STREAM_EVENTS">>>>

\* the storage task, one iteration: 612
storage_task_locks == Guarded("CHANGE_STREAM_EVENTS")
\* the listener task on a read error: 639
listener_task_locks == Guarded("change_streams")
\* stop_change_stream: 659-661, 663, 664, 665
stop_change_stream_locks ==
    Guarded("change_streams") \o Guarded("change_streams")
        \o Guarded("change_stream_senders") \o Guarded("change_stream_events")
\* list_change_streams: 674
list_change_streams_locks == Guarded("change_streams")
\* get_change_stream_events: the static buffer's guard in the block of
\* 698-709; then, in the block of 711-717, the guard of the per-request copy
\* and inside it the static buffer's again
get_change_stream_events_locks ==
    Guarded("CHANGE_STREAM_EVENTS") \o
    <<<<"lock", "change_stream_events">>, <<"lock", "CHANGE_STREAM_EVENTS">>,
      <<"unlock", "CHANGE_STREAM_EVENTS">>, <<"unlock", "change_stream_events">>>>
\* poll_change_stream_events: senders (731) and events_map (737) are locals
\* dropped at the end of the function, the later one first
poll_change_stream_events_locks ==
    <<<<"lock", "change_stream_senders">>, <<"lock", "change_stream_events">>,
      <<"unlock", "change_stream_events">>, <<"unlock", "change_stream_senders">>>>
\* clear_change_stream_events: 746
clear_change_stream_events_locks == Guarded("change_stream_events")

\* the handlers registered in main.rs:24-70 that lock anything, and the two
\* tasks start_change_stream spawns
LockScript ==
    [connect_db |-> connect_db_locks,
     disconnect_db |-> disconnect_db_locks,
     list_connections |-> list_connections_locks,
     get_connection |-> get_connection_locks,
     list_databases |-> get_client_locks,
     start_find |-> start_find_locks,
     start_aggregate |-> start_aggregate_locks,
     fetch_next |-> fetch_next_locks,
     cancel_query |-> cancel_query_locks,
     get_query_history |-> get_query_history_locks,
     clear_query_history |-> clear_query_history_locks,
     delete_query_history_entry |-> delete_query_history_entry_locks,
     start_change_stream |-> start_change_stream_locks,
     storage_task |-> storage_task_locks,
     listener_task |-> listener_task_locks,
     stop_change_stream |-> stop_change_stream_locks,
     list_change_streams |-> list_change_streams_locks,
     get_change_stream_events |-> get_change_stream_events_locks,
     poll_change_stream_events |-> poll_change_stream_events_locks,
     clear_change_stream_events |-> clear_change_stream_events_locks]

LockOps == DOMAIN LockScript

\* the step thread p is at
LockStepOf(p) == LockScript[lock_op[p]][lock_pc[p]]

\* a thread starts running a handler or a task
LockCall(p, op) ==
    /\ lock_op[p] = "idle"
    /\ lock_op' = [lock_op EXCEPT ![p] = op]
    /\ lock_pc' = [lock_pc EXCEPT ![p] = 1]
    /\ UNCHANGED held
    /\ UNCHANGED <<registryVars, cursorVars, historyVars, feedVars, pollVars,
                   stepVars>>

\* Mutex::lock: the thread waits until no guard of the mutex is alive
LockAcquire(p) ==
    /\ lock_op[p] # "idle"
    /\ lock_pc[p] <= Len(LockScript[lock_op[p]])
    /\ LockStepOf(p)[1] = "lock"
    /\ \A q \in Threads : LockStepOf(p)[2] \notin held[q]
    /\ held' = [held EXCEPT ![p] = @ \cup {LockStepOf(p)[2]}]
    /\ lock_pc' = [lock_pc EXCEPT ![p] = @ + 1]
    /\ UNCHANGED lock_op
    /\ UNCHANGED <<registryVars, cursorVars, historyVars, feedVars, pollVars,
                   stepVars>>

\* the guard goes out of scope
LockRelease(p) ==
    /\ lock_op[p] # "idle"
    /\ lock_pc[p] <= Len(LockScript[lock_op[p]])
    /\ LockStepOf(p)[1] = "unlock"
    /\ held' = [held EXCEPT ![p] = @ \ {LockStepOf(p)[2]}]
    /\ lock_pc' = [lock_pc EXCEPT ![p] = @ + 1]
    /\ UNCHANGED lock_op
    /\ UNCHANGED <<registryVars, cursorVars, historyVars, feedVars, pollVars,
                   stepVars>>

\* an .await of the handler resolves
LockAwait(p) ==
    /\ lock_op[p] # "idle"
    /\ lock_pc[p] <= Len(LockScript[lock_op[p]])
    /\ LockStepOf(p)[1] = "await"
    /\ lock_pc' = [lock_pc EXCEPT ![p] = @ + 1]
    /\ UNCHANGED <<lock_op, held>>
    /\ UNCHANGED <<registryVars, cursorVars, historyVars, feedVars, pollVars,
                   stepVars>>

\* the handler returns
LockReturn(p) ==
    /\ lock_op[p] # "idle"
    /\ lock_pc[p] > Len(LockScript[lock_op[p]])
    /\ lock_op' = [lock_op EXCEPT ![p] = "idle"]
    /\ lock_pc' = [lock_pc EXCEPT ![p] = 0]
    /\ UNCHANGED held
    /\ UNCHANGED <<registryVars, cursorVars, historyVars, feedVars, pollVars,
                   stepVars>>

\* Threads running the commands and the tasks concurrently, seen through
\* the mutexes they take.
NextLocks ==
    \/ \E p \in Threads, op \in LockOps : LockCall(p, op)
    \/ \E p \in Threads : LockAcquire(p)
    \/ \E p \in Threads : LockRelease(p)
    \/ \E p \in Threads : LockAwait(p)
    \/ \E p \in Threads : LockReturn(p)

SpecLocks == Init /\ [][NextLocks]_vars

(* -------------------- properties of the change feed ------------------- *)

\* C1: after stop_change_stream(s) has returned, every later
\* get_change_stream_events(s, limit) returns the empty list, for any limit
\* and however many events were buffered before the stop.
C1_PollAfterStopIsEmpty ==
    [][\A s \in StreamInputs, limit \in PollLimits :
          (s \in stopped /\ PollRead(s, limit)) => poll_result' = << >>]_vars

\* C2: after stop_change_stream(s), the storage task of s exits on its next
\* attempted append: the first event it receives after the stop finds the
\* target removed and ends the task.
C2_StorageExitsAfterStop ==
    [][\A s \in StreamInputs :
          (s \in stopped /\ StorageRecv(s)) => storage'[s] = "done"]_vars

\* C3: clear_change_stream_events(s) leaves the liveness flags as they are,
\* and no event that was buffered for s when it was cleared is returned by a
\* later get_change_stream_events(s).
C3_ClearedEventsNeverReturn ==
    [][/\ \A s \in StreamInputs :
             clear_change_stream_events(s) => change_streams' = change_streams
       /\ \A s \in StreamInputs, limit \in PollLimits :
             PollRead(s, limit) => Range(poll_result') \cap cleared[s] = {}]_vars

\* C4: get_change_stream_events(s, limit) on a registered stream whose
\* buffer holds n events returns the min(limit, n) most recently appended
\* ones, newest first (limit defaults to 100), and neither half of the call
\* changes the buffer it reads.
C4_PollNewestFirst ==
    [][/\ \A s \in DOMAIN change_streams, limit \in PollLimits :
             PollRead(s, limit) =>
                 LET buf == CHANGE_STREAM_EVENTS[s]
                     n == Len(buf)
                     k == Min(IF limit = None THEN 100 ELSE limit[1], n)
                 IN /\ Len(poll_result') = k
                    /\ \A i \in 1..k : poll_result'[i] = buf[n - i + 1]
                    /\ CHANGE_STREAM_EVENTS' = CHANGE_STREAM_EVENTS
       /\ PollSync => CHANGE_STREAM_EVENTS' = CHANGE_STREAM_EVENTS]_vars

\* C4 witness: a poll with limit 2 of a registered stream holding three
\* events has returned the two newest, newest first.
C4_Witness ==
    /\ poll_pc = "sync"
    /\ poll_stream \in DOMAIN change_streams
    /\ CHANGE_STREAM_EVENTS[poll_stream] = <<1, 2, 3>>
    /\ poll_result = <<3, 2>>

\* C5: every change-stream buffer holds at most 1000 events, and after k
\* appends the static buffer holds the min(k, 1000) most recent events in
\* arrival order (the oldest is the one evicted on overflow).
C5_BufferBounded ==
    /\ \A s \in DOMAIN change_stream_events :
           Len(change_stream_events[s]) <= 1000
    /\ \A s \in DOMAIN CHANGE_STREAM_EVENTS :
           LET buf == CHANGE_STREAM_EVENTS[s]
               k == listener[s].yielded - Len(event_rx[s])
               m == Min(k, 1000)
           IN /\ Len(buf) = m
              /\ \A i \in 1..m : buf[i] = k - m + i

\* C5 witness: 1002 events were appended; the buffer holds events 3..1002.
C5_Witness ==
    \E s \in DOMAIN CHANGE_STREAM_EVENTS :
        /\ Len(CHANGE_STREAM_EVENTS[s]) = 1000
        /\ CHANGE_STREAM_EVENTS[s][1] = 3
        /\ CHANGE_STREAM_EVENTS[s][1000] = 1002

\* C6: once the listener task of a stream has terminated, whether the
\* driver's stream ended or failed, list_change_streams does not report the
\* stream as active.
C6_InactiveWhenListenerDone ==
    \A info \in list_change_streams(None) :
        listener[info.id].pc # "running" => ~info.is_active

\* C7: once the liveness flag of a stream is false (a read error) or the
\* stream was stopped, no further event is appended to its buffers.
C7_NoAppendWhenInactive ==
    [][\A s \in DOMAIN CHANGE_STREAM_EVENTS :
          (\/ s \in stopped
           \/ (s \in DOMAIN change_streams /\ ~change_streams[s].is_active))
          => /\ Range(CHANGE_STREAM_EVENTS'[s]) \subseteq Range(CHANGE_STREAM_EVENTS[s])
             /\ (s \in DOMAIN change_stream_events /\ s \in DOMAIN change_stream_events')
                  => Range(change_stream_events'[s])
                          \subseteq Range(change_stream_events[s])
                               \cup Range(CHANGE_STREAM_EVENTS[s])]_vars

(* ------------------ properties of the cursor sessions ----------------- *)

\* the positions of the documents of stream after position pos, in order
RECURSIVE DocsAfter(_, _)
DocsAfter(stream, pos) ==
    IF pos >= Len(stream) THEN << >>
    ELSE (IF stream[pos + 1] = "doc" THEN <<pos + 1>> ELSE << >>)
         \o DocsAfter(stream, pos + 1)

\* C8: a per-item failure costs a fetch only the failed item: a returned
\* batch holds the first documents that follow the position where the fetch
\* began, up to the batch size, the failing items among them skipped.
C8_FailedItemOnlySkipped ==
    \A p \in Fetchers :
        fetch_result[p].kind = "ok" =>
            LET valid == DocsAfter(source[fetch_arg[p]], fetch_start[p])
                k == Min(50, Len(valid))
            IN fetch_result[p].docs = [i \in 1..k |-> [json |-> valid[i]]]

\* C9: a fetch suspended in the driver on one session never keeps a fetch
\* on another registered session from starting.
C9_OtherSessionNotBlocked ==
    \A p \in Fetchers, q \in Fetchers :
        (/\ fetch_pc[p] = "next"
         /\ fetch_pc[q] = "lock"
         /\ fetch_arg[q] # fetch_arg[p]
         /\ fetch_arg[q] \in DOMAIN cursors)
        => ENABLED FetchLock(q)

\* C10: at most one fetch per session reads the stream at any time; every
\* returned batch is a contiguous run of the stream's documents; no
\* document is returned to two calls; and the documents returned so far
\* plus those of the batch being read are exactly the documents the cursor
\* has passed, in stream order.
C10_FetchesSerialized ==
    /\ \A s \in DOMAIN source :
           Cardinality({p \in Fetchers :
                          fetch_pc[p] = "next" /\ fetch_arg[p] = s}) <= 1
    /\ \A p \in Fetchers :
           fetch_result[p].kind = "ok" =>
               LET docs == fetch_result[p].docs IN
               \A i \in 1..(Len(docs) - 1) :
                   /\ docs[i].json < docs[i + 1].json
                   /\ \A j \in (docs[i].json + 1)..(docs[i + 1].json - 1) :
                          source[fetch_arg[p]][j] = "err"
    /\ \A p \in Fetchers, q \in Fetchers :
           (/\ p # q
            /\ fetch_arg[p] = fetch_arg[q]
            /\ fetch_result[p].kind = "ok"
            /\ fetch_result[q].kind = "ok")
           => Range(fetch_result[p].docs) \cap Range(fetch_result[q].docs) = {}
    /\ \A s \in DOMAIN cursors :
           LET reading == {p \in Fetchers :
                             fetch_pc[p] = "next" /\ fetch_arg[p] = s}
               passed == {i \in 1..cursors[s].pos : source[s][i] = "doc"}
               batches == Range(delivered[s])
                            \cup UNION {Range(fetch_batch[p]) : p \in reading}
           IN /\ batches = passed
              /\ Len(delivered[s])
                   + Cardinality(UNION {Range(fetch_batch[p]) : p \in reading})
                 = Cardinality(passed)
              /\ \A i \in 1..(Len(delivered[s]) - 1) :
                     delivered[s][i] < delivered[s][i + 1]

\* C10 witness: a caller is waiting for the mutex of the session another
\* caller is reading a second batch from, the first batch of 50 documents
\* having been returned.
C10_Witness ==
    \E p \in Fetchers, q \in Fetchers :
        /\ fetch_pc[p] = "next" /\ fetch_batch[p] # << >>
        /\ fetch_pc[q] = "lock" /\ fetch_arg[q] = fetch_arg[p]
        /\ fetch_result[q].kind = "none"
        /\ Len(delivered[fetch_arg[p]]) = 50

\* every item of the result stream is a document
AllDocs(stream) == \A i \in 1..Len(stream) : stream[i] = "doc"

\* C11: a session whose result stream has N items and no failing item is
\* drained by successive fetch_next calls exactly once and in stream order:
\* each call returns min(batch size, remaining) documents, starting where the
\* previous call ended (120 items at batch size 50: 50, 50, 20, then empty).
C11_DrainedOnceInOrder ==
    \A s \in DOMAIN source :
        AllDocs(source[s]) =>
            /\ delivered[s] = [i \in 1..Len(delivered[s]) |-> i]
            /\ Len(delivered[s]) <= Len(source[s])
            /\ \A p \in Fetchers :
                   (fetch_arg[p] = s /\ fetch_result[p].kind = "ok") =>
                       fetch_result[p].docs =
                           [i \in 1..Min(DEFAULT_BATCH_SIZE,
                                         Len(source[s]) - fetch_start[p])
                               |-> to_value(fetch_start[p] + i)]
            /\ (s \in DOMAIN cursors /\ cursors_lock = 0) =>
                   cursors[s].pos = Len(delivered[s])

\* the stream of 120 documents was drained: the third batch held the last
\* 20 documents and the call after it returned the empty batch
C11_Witness ==
    \E s \in DOMAIN source, p \in Fetchers, q \in Fetchers :
        /\ AllDocs(source[s]) /\ Len(source[s]) = LongDocs
        /\ delivered[s] = [i \in 1..LongDocs |-> i]
        /\ fetch_arg[p] = s /\ fetch_result[p].kind = "ok"
        /\ fetch_start[p] = 2 * DEFAULT_BATCH_SIZE
        /\ Len(fetch_result[p].docs) = LongDocs - 2 * DEFAULT_BATCH_SIZE
        /\ fetch_arg[q] = s /\ fetch_result[q].kind = "ok"
        /\ fetch_start[q] = LongDocs
        /\ fetch_result[q].docs = << >>

\* C12: the batch size of every session stays within [1, 1000] (sessions
\* start at 50; set_batch_size clamps a size below 1 to 1 and a size above
\* 1000 to 1000), and no fetch_next returns more items than the batch size
\* of its session.
C12_BatchSizeBounded ==
    [][/\ \A s \in DOMAIN cursors' :
              /\ cursors'[s].batch_size >= 1
              /\ cursors'[s].batch_size <= 1000
       /\ \A s \in DOMAIN cursors' \ DOMAIN cursors :
              cursors'[s].batch_size = 50
       /\ \A p \in Fetchers :
              (fetch_pc[p] = "next" /\ fetch_pc'[p] = "idle") =>
                  /\ fetch_result'[p].kind = "ok"
                  /\ Len(fetch_result'[p].docs) <= cursors[fetch_arg[p]].batch_size]_vars

\* a size of 0 was clamped to 1 and a fetch then returned one document of a
\* stream that had more
C12_Witness ==
    \E s \in DOMAIN cursors, p \in Fetchers :
        /\ cursors[s].batch_size = 1
        /\ fetch_arg[p] = s /\ fetch_result[p].kind = "ok"
        /\ Len(fetch_result[p].docs) = 1
        /\ cursors[s].pos < Len(cursors[s].stream)

\* C13: after cancel_query(s) has returned, every fetch_next(s) fails with
\* "Invalid session ID"; cancel_query on an unknown or already cancelled id
\* succeeds and changes nothing: a step removes a session only by cancelling
\* that session, leaves every other session as it was, and a cancelled
\* session never comes back.
C13_CancelledSessionInvalid ==
    [][/\ \A p \in Fetchers :
              (/\ fetch_pc[p] = "lock" /\ fetch_pc'[p] # "lock"
               /\ fetch_arg[p] \in cancelled) =>
                  /\ fetch_pc'[p] = "idle"
                  /\ fetch_result'[p] = [kind |-> "err"]
       /\ \A s \in DOMAIN cursors \ DOMAIN cursors' : s \in cancelled' \ cancelled
       /\ \A s \in DOMAIN cursors \cap DOMAIN cursors' :
              cancelled' # cancelled => cursors'[s] = cursors[s]
       /\ cancelled \cap DOMAIN cursors' = {}]_vars

\* a fetch on a cancelled session was answered with the error
C13_Witness ==
    \E p \in Fetchers :
        /\ fetch_arg[p] \in cancelled
        /\ fetch_pc[p] = "idle"
        /\ fetch_result[p] = [kind |-> "err"]

\* C14: exhaustion never removes a session.  A fetch that returns leaves its
\* session registered; a fetch on a registered session whose stream is
\* exhausted is accepted and returns the empty batch; a session leaves the
\* map only when cancel_query is called on it.
C14_ExhaustedSessionStays ==
    [][/\ \A p \in Fetchers :
              (fetch_pc[p] = "next" /\ fetch_pc'[p] = "idle") =>
                  /\ fetch_arg[p] \in DOMAIN cursors'
                  /\ fetch_start[p] = Len(source[fetch_arg[p]]) =>
                         fetch_result'[p] = [kind |-> "ok", docs |-> << >>]
       /\ \A p \in Fetchers :
              (/\ fetch_pc[p] = "lock" /\ fetch_pc'[p] # "lock"
               /\ fetch_arg[p] \in DOMAIN cursors
               /\ cursors[fetch_arg[p]].pos = Len(source[fetch_arg[p]])) =>
                  fetch_pc'[p] = "next"
       /\ \A s \in DOMAIN cursors \ DOMAIN cursors' : s \in cancelled']_vars

\* a fetch that began at the end of a non-empty stream returned the empty
\* batch and the session is still registered
C14_Witness ==
    \E p \in Fetchers :
        /\ fetch_arg[p] \in DOMAIN cursors
        /\ fetch_pc[p] = "idle"
        /\ Len(source[fetch_arg[p]]) > 0
        /\ fetch_start[p] = Len(source[fetch_arg[p]])
        /\ fetch_result[p] = [kind |-> "ok", docs |-> << >>]

(* --------------- properties of the connection registry ---------------- *)

\* C15: after disconnect_db(c), get_connection(c) and every command that
\* resolves the connection fail with not-found, and the id never becomes
\* valid again: an issued id that is not registered stays unregistered, a
\* disconnect leaves its id unregistered, get_connection and list_databases
\* answer not-found for an unregistered id, and start_find and
\* start_change_stream create a session, a history entry or a watch only
\* for a registered id.
C15_DisconnectedStaysInvalid ==
    [][/\ \A c \in 1..next_conn :
              /\ c \notin clients => c \notin clients'
              /\ c \notin connections => c \notin connections'
       /\ registry_reply'.op = "disconnect_db" =>
              /\ registry_reply'.id \notin clients'
              /\ registry_reply'.id \notin connections'
       /\ (registry_reply'.op = "get_connection"
              /\ registry_reply'.id \notin connections') =>
              registry_reply'.kind = "not_found"
       /\ (registry_reply'.op = "list_databases"
              /\ registry_reply'.id \notin clients') =>
              registry_reply'.kind = "not_found"
       /\ Len(query_history') > Len(query_history) =>
              query_history'[Len(query_history')].connection_id \in clients
       /\ \A s \in DOMAIN cursors' \ DOMAIN cursors : owner'[s] \in clients
       /\ \A s \in DOMAIN change_streams' \ DOMAIN change_streams :
              change_streams'[s].connection_id \in clients]_vars

\* get_connection on a connection that was registered and then disconnected
\* answered not-found
C15_Witness ==
    /\ registry_reply.op = "get_connection"
    /\ registry_reply.id \in 1..next_conn
    /\ registry_reply.kind = "not_found"

\* C16: disconnect_db never fails and removes only the handle and metadata
\* of its own id: every disconnect answers Ok, also for an unknown or
\* already removed id; a connection leaves the registry only in a disconnect
\* of that id, and enters it only in a connect, so a disconnect of an
\* unregistered id changes nothing and every other connection stays.
C16_DisconnectRemovesOnlyItsOwn ==
    [][/\ registry_reply'.op = "disconnect_db" => registry_reply'.kind = "ok"
       /\ \A c \in (clients \ clients') \cup (connections \ connections') :
              registry_reply' = [op |-> "disconnect_db", id |-> c, kind |-> "ok"]
       /\ \A c \in (clients' \ clients) \cup (connections' \ connections) :
              registry_reply' = [op |-> "connect_db", id |-> c, kind |-> "ok"]
       /\ registry_reply'.op = "disconnect_db" =>
              /\ registry_reply'.id \notin clients'
              /\ registry_reply'.id \notin connections']_vars

\* the first of two connections was disconnected and the second is still
\* fully registered
C16_Witness ==
    /\ registry_reply = [op |-> "disconnect_db", id |-> 1, kind |-> "ok"]
    /\ 1 \notin clients /\ 1 \notin connections
    /\ 2 \in clients /\ 2 \in connections

\* C17: once the connection a session was started on has been disconnected,
\* every fetch_next invoked afterwards on that session fails with the
\* stream-closed error instead of returning documents; in particular no
\* such call returns a document.
C17_FetchAfterDisconnectFails ==
    [][\A p \in Fetchers :
          (/\ fetch_gone[p]
           /\ fetch_pc[p] \in {"lock", "next"}
           /\ fetch_pc'[p] = "idle") =>
              /\ fetch_result'[p].kind # "none"
              /\ fetch_result'[p].kind = "ok" => fetch_result'[p].docs = << >>]_vars

(* ------------------- properties of the query history ------------------ *)

\* C18: the history never holds more than 1000 entries in any state another
\* operation can observe: a push onto a full history evicts the head in the
\* same step, so the history is always the most recent min(n, 1000) of the
\* n records pushed, in push order (after 1001 pushes it holds 1000 entries
\* and the first record is gone).
C18_HistoryBounded ==
    /\ Len(query_history) <= 1000
    /\ Len(query_history) = Min(next_entry, 1000)
    /\ \A i \in 1..Len(query_history) :
           query_history[i].id = next_entry - Len(query_history) + i

\* 1001 queries were recorded: 1000 entries are kept, the first is gone
C18_Witness ==
    /\ next_entry = 1001
    /\ Len(query_history) = 1000
    /\ query_history[1].id = 2
    /\ query_history[1000].id = 1001

\* C19: get_query_history(limit, connection) returns at most limit entries
\* (100 when no limit is given), all of the given connection when one is
\* given, ordered newest first by timestamp, and they are the newest such
\* entries: as many as the limit allows, each entry once, and no entry left
\* out is newer than one returned.  The call changes nothing but its answer.
C19_HistoryQueryNewestFirst ==
    [][\A limit \in HistoryLimits, c \in HistoryFilters :
          (/\ query_history' = query_history
           /\ get_query_history(limit, c)) =>
              LET r == history_result'
                  n == IF limit = None THEN 100 ELSE limit[1]
                  Matches(e) == c = None \/ e.connection_id = c[1]
                  M == {k \in 1..Len(query_history) : Matches(query_history[k])}
                  shown == {r[i].json.id : i \in 1..Len(r)}
              IN /\ Len(r) <= n
                 /\ Len(r) = Min(n, Cardinality(M))
                 /\ Cardinality(shown) = Len(r)
                 /\ \A i \in 1..Len(r) :
                        /\ \E k \in M : query_history[k] = r[i].json
                        /\ \A j \in i..Len(r) :
                               r[i].json.executed_at >= r[j].json.executed_at
                        /\ \A k \in M :
                               query_history[k].id \notin shown =>
                                   r[i].json.executed_at >= query_history[k].executed_at
                 /\ UNCHANGED <<registryVars, cursorVars, feedVars>>]_vars

\* a listing under limit 1: the history holds an older entry and, stored
\* after it, a newer entry of the same connection; the newer one alone was
\* returned
C19_Witness ==
    \E a \in 1..Len(query_history), b \in 1..Len(query_history) :
        /\ a < b
        /\ query_history[a].connection_id = query_history[b].connection_id
        /\ query_history[a].executed_at < query_history[b].executed_at
        /\ history_result = <<[json |-> query_history[b]]>>

\* C20: a find or aggregate is recorded in the history exactly when its
\* parameters were validated and it was dispatched to the driver, whether or
\* not the driver call then succeeds; a start that fails before dispatch
\* records nothing.  So the number of entries ever recorded equals the
\* number of queries handed to the driver.
C20_RecordedWhenDispatched == next_entry = dispatched


(* ------------------ properties of the history's editing ---------------- *)

\* the ids of the entries of a log, in stored order
EntryIds(history) == [i \in 1..Len(history) |-> history[i].id]

\* sub is what remains of seq when some of its elements are struck out:
\* the elements of sub appear in seq in the same relative order
RECURSIVE IsSubsequence(_, _)
IsSubsequence(sub, seq) ==
    IF sub = << >> THEN TRUE
    ELSE IF seq = << >> THEN FALSE
    ELSE IF Head(sub) = Head(seq)
         THEN IsSubsequence(Tail(sub), Tail(seq))
         ELSE IsSubsequence(sub, Tail(seq))

\* C21: delete_query_history_entry(e) removes exactly the entries whose id
\* is e and keeps every other entry, unchanged and in the same relative
\* order (so deleting an id no entry has leaves the log as it is);
\* clear_query_history leaves the log empty (so clearing an empty log
\* leaves it as it is); and no step of any operation changes an entry that
\* stays in the log: an entry found in the log after a step under an id
\* the log held before is the entry the log held.
C21_DeleteExactlyThatEntry ==
    [][/\ \A e \in 0..MaxQueries :
             delete_query_history_entry(e) =>
                 /\ Range(EntryIds(query_history'))
                        = Range(EntryIds(query_history)) \ {e}
                 /\ Len(query_history')
                        = Cardinality({i \in 1..Len(query_history) :
                                          query_history[i].id # e})
                 /\ IsSubsequence(query_history', query_history)
       /\ clear_query_history => query_history' = << >>
       /\ \A i \in 1..Len(query_history'), k \in 1..Len(query_history) :
             query_history'[i].id = query_history[k].id
                 => query_history'[i] = query_history[k]
      ]_vars

\* three queries were recorded and the second entry was deleted: the first
\* and the third are left, in that order
C21_Witness ==
    /\ next_entry = 3
    /\ EntryIds(query_history) = <<1, 3>>
    /\ query_history[2].query_type = "aggregate"


(* --------------------- properties of failing commands ------------------ *)

\* the stream ids under which anything of a watch is registered or running
Registered ==
    DOMAIN change_streams \cup change_stream_senders
        \cup DOMAIN change_stream_events \cup DOMAIN CHANGE_STREAM_EVENTS
        \cup DOMAIN event_rx \cup DOMAIN listener \cup DOMAIN storage

\* C22: a start_change_stream whose connection id is not registered (never
\* issued, or disconnected) returns the not-found error, and a
\* start_change_stream that returns any error (not found, bad filter,
\* driver error) registers nothing: no info, no sender, no buffer, no
\* channel, no listener and no storage task; whatever is newly registered
\* under a stream id was registered by the call that returned that id.
C22_FailedWatchRegistersNothing ==
    [][/\ watch_reply' # watch_reply =>
             /\ watch_reply'.connection_id \notin clients
                    => watch_reply'.kind = "not_found"
             /\ watch_reply'.kind # "ok" =>
                    UNCHANGED <<change_streams, change_stream_senders,
                                change_stream_events, CHANGE_STREAM_EVENTS,
                                event_rx, listener, storage, next_stream>>
       /\ \A s \in Registered' \ Registered :
             /\ watch_reply' = [connection_id |-> change_streams'[s].connection_id,
                                kind |-> "ok", id |-> s]
             /\ watch_reply'.connection_id \in clients
      ]_vars

\* a watch on the disconnected connection 1 has returned not-found, and
\* nothing is registered
C22_Witness ==
    /\ next_conn = 1
    /\ clients = {}
    /\ watch_reply = [connection_id |-> 1, kind |-> "not_found", id |-> 0]
    /\ Registered = {}


\* C23: a connect_db whose connection cannot be established or verified
\* returns an error without an id and leaves the registry as it was: the
\* handle map, the metadata map and the id generation are unchanged, and
\* an id enters either map only by the connect_db that returned it.
C23_FailedConnectRegistersNothing ==
    [][/\ (/\ registry_reply' # registry_reply
           /\ registry_reply'.op = "connect_db"
           /\ registry_reply'.kind = "error")
          => /\ registry_reply'.id = 0
             /\ UNCHANGED <<clients, connections, next_conn>>
       /\ \A c \in (clients' \cup connections') \ (clients \cup connections) :
             registry_reply' = [op |-> "connect_db", id |-> c, kind |-> "ok"]
      ]_vars

\* connection 1 is registered and a second connect has failed: the
\* registry still holds connection 1 alone and no second id was issued
C23_Witness ==
    /\ registry_reply = [op |-> "connect_db", id |-> 0, kind |-> "error"]
    /\ next_conn = 1
    /\ clients = {1}
    /\ connections = {1}


(* ------------------ properties of the feed's life cycle ---------------- *)

\* the events of a buffer stand in the order in which the driver's stream
\* yielded them: the listener numbers them as it reads them
InDriverOrder(events) ==
    \A i \in 1..Len(events), j \in 1..Len(events) :
        i < j => events[i] < events[j]

\* seq read from its last element back to its first
Reversed(seq) == [i \in 1..Len(seq) |-> seq[Len(seq) - i + 1]]

\* C24: in every buffer of a stream, the static one and the per-request
\* copy, the events stand in the order in which the driver's stream
\* delivered them to the listener, whatever the interleaving of the
\* listener, the storage task and the polls; and what a
\* get_change_stream_events call returns is a suffix of the stream's buffer
\* read backwards.
C24_BufferInDeliveryOrder ==
    [][/\ \A s \in DOMAIN CHANGE_STREAM_EVENTS' :
             InDriverOrder(CHANGE_STREAM_EVENTS'[s])
       /\ \A s \in DOMAIN change_stream_events' :
             InDriverOrder(change_stream_events'[s])
       /\ \A s \in DOMAIN CHANGE_STREAM_EVENTS, limit \in PollLimits :
             PollRead(s, limit) =>
                 \E k \in 0..Len(CHANGE_STREAM_EVENTS[s]) :
                     poll_result' =
                         Reversed(SubSeq(CHANGE_STREAM_EVENTS[s], k + 1,
                                         Len(CHANGE_STREAM_EVENTS[s])))
      ]_vars

\* the listener has read three events and is still running, the storage
\* task has appended two of them, and a poll that ran in between returned
\* those two, the newer one first
C24_Witness ==
    /\ 1 \in DOMAIN CHANGE_STREAM_EVENTS
    /\ CHANGE_STREAM_EVENTS[1] = <<1, 2>>
    /\ event_rx[1] = <<3>>
    /\ listener[1].pc = "running"
    /\ poll_result = <<2, 1>>
    /\ poll_pc = "sync"


\* C25: the is_active flag of a stream never goes from false to true: a
\* stream is registered under an id not used before with the flag true,
\* and a registered stream whose flag is false keeps it false in every
\* step that leaves it registered.
C25_FlagNeverSetAgain ==
    [][/\ \A s \in DOMAIN change_streams' \ DOMAIN change_streams :
             /\ change_streams'[s].is_active
             /\ s > next_stream
       /\ \A s \in DOMAIN change_streams' \cap DOMAIN change_streams :
             ~change_streams[s].is_active => ~change_streams'[s].is_active
      ]_vars

\* the listener of the registered stream 1 has failed after reading two
\* events: the flag, true at registration, is false
C25_Witness ==
    /\ 1 \in DOMAIN change_streams
    /\ ~change_streams[1].is_active
    /\ listener[1] = [pc |-> "failed", yielded |-> 2]


\* the streams whose listener ended on a read error and for which
\* stop_change_stream has not been called
FailedUnstopped == {s \in DOMAIN listener : listener[s].pc = "failed"} \ stopped

\* C26: a stream whose listener ended on a read error of the driver stream
\* is not removed until stop_change_stream is called for it: it is listed
\* by list_change_streams with is_active false, its listener stays ended
\* and reads no further event, no step takes an event out of its buffer,
\* and a get_change_stream_events without a limit returns all the events
\* the buffer holds, those buffered before the error among them.
C26_FailedStreamStaysListed ==
    [][\A s \in FailedUnstopped' :
          /\ s \in DOMAIN change_streams'
          /\ ~change_streams'[s].is_active
          /\ ([id |-> s, is_active |-> FALSE] \in list_change_streams(None))'
          /\ s \in FailedUnstopped =>
                /\ listener'[s] = listener[s]
                /\ s \in DOMAIN CHANGE_STREAM_EVENTS'
                /\ Len(CHANGE_STREAM_EVENTS[s]) <= Len(CHANGE_STREAM_EVENTS'[s])
                /\ SubSeq(CHANGE_STREAM_EVENTS'[s], 1, Len(CHANGE_STREAM_EVENTS[s]))
                       = CHANGE_STREAM_EVENTS[s]
                /\ PollRead(s, None) =>
                       poll_result' = Reversed(CHANGE_STREAM_EVENTS[s])
      ]_vars

\* the listener of stream 1 failed after two events, nobody stopped the
\* stream, and a poll has returned both events
C26_Witness ==
    /\ FailedUnstopped = {1}
    /\ ~change_streams[1].is_active
    /\ CHANGE_STREAM_EVENTS[1] = <<1, 2>>
    /\ event_rx[1] = << >>
    /\ poll_result = <<2, 1>>
    /\ poll_pc = "sync"


\* C27: when a stream is started with an allow-list of operation kinds,
\* every event in its buffer has an operation kind of that list.
C27_OnlyAllowedKindsBuffered ==
    \A s \in DOMAIN change_streams \cap DOMAIN CHANGE_STREAM_EVENTS :
        change_streams[s].operation_types # << >> =>
            \A i \in 1..Len(CHANGE_STREAM_EVENTS[s]) :
                OperationType(CHANGE_STREAM_EVENTS[s][i])
                    \in Range(change_streams[s].operation_types)


(* --------------------- properties of concurrent calls ------------------ *)

\* C28: in every reachable state the timestamps of the history are
\* non-decreasing from head to tail, so that the head, the entry evicted
\* first, is the oldest.
C28_HistoryTimeOrdered ==
    \A i \in 1..Len(query_history), j \in 1..Len(query_history) :
        i < j => query_history[i].executed_at <= query_history[j].executed_at


C30_OneComponentLockedAtATime ==
    \A p \in Threads : \A a \in held[p], b \in held[p] :
        Component(a) = Component(b)

\* a start_find that has registered its session and released the cursors
\* mutex holds the history mutex alone, while the other thread is inside
\* get_change_stream_events holding two mutexes of the change feed
C30_Witness ==
    \E p \in Threads, q \in Threads :
        /\ lock_op[p] = "start_find"
        /\ held[p] = {"query_history"}
        /\ lock_op[q] = "get_change_stream_events"
        /\ held[q] = {"change_stream_events", "CHANGE_STREAM_EVENTS"}


\* thread p stands at a Mutex::lock whose mutex thread q holds
WaitsFor(p, q) ==
    /\ lock_op[p] # "idle"
    /\ lock_pc[p] <= Len(LockScript[lock_op[p]])
    /\ LockStepOf(p)[1] = "lock"
    /\ LockStepOf(p)[2] \in held[q]

C32_MapsAgreeWhenQuiescent ==
    (\A p \in Callers : reg_call[p].pc = "idle") =>
        /\ clients = connections
        /\ \A c \in ConnInputs : c \in connections <=> get_client(c)

\* two connects and a disconnect of connection 1 have run to their end, the
\* disconnect last: both maps hold connection 2 alone
C32_Witness ==
    /\ \A p \in Callers : reg_call[p].pc = "idle"
    /\ registry_reply = [op |-> "disconnect_db", id |-> 1, kind |-> "ok"]
    /\ next_conn = 2
    /\ clients = {2}
    /\ connections = {2}


\* C33: while a fetch_next is suspended in the driver, a cancel_query of
\* its session, a disconnect_db of a registered connection and a start_find
\* on a registered connection can each run to completion without waiting
\* for the fetch to return.
C33_NotHeldUpBySuspendedFetch ==
    \A p \in Fetchers :
        fetch_pc[p] = "next" =>
            /\ ENABLED cancel_query(fetch_arg[p])
            /\ \A c \in clients :
                  /\ ENABLED disconnect_db(c)
                  /\ ENABLED start_find(c, "ok", << >>)


\* event e of stream s, not stopped, is in the channel
InTransit(s, e) ==
    IF s \in DOMAIN event_rx /\ s \notin stopped
    THEN e \in Range(event_rx[s]) ELSE FALSE

\* event e of stream s is in the buffer get_change_stream_events reads
Buffered(s, e) ==
    IF s \in DOMAIN CHANGE_STREAM_EVENTS
    THEN e \in Range(CHANGE_STREAM_EVENTS[s]) ELSE FALSE

OthersUntouched(s) ==
    \A o \in DOMAIN cursors \ {s} :
        o \in DOMAIN cursors' /\ cursors'[o] = cursors[o]

\* C35: fetch_next(s) and cancel_query(s) affect session s only.  A step
\* that changes the session map changes it for one session s alone: every
\* other session stays registered with its stream, its position and its
\* batch size.  If s was removed, it was a cancel naming s; if s was kept
\* and changed, it was a fetch on s, which kept the batch size of s, and
\* the documents that fetch returns are documents of the stream the driver
\* opened for s, taken from it after the position where the fetch began.
C35_OnlyOwnSessionAffected ==
    [][cursors' # cursors =>
          \E s \in 1..next_session' :
              /\ OthersUntouched(s)
              /\ s \in DOMAIN cursors =>
                    IF s \notin DOMAIN cursors'
                    THEN s \in cancelled'
                    ELSE /\ cursors'[s].batch_size = cursors[s].batch_size
                         /\ cursors'[s].stream = cursors[s].stream
                         /\ \E p \in Fetchers :
                               /\ fetch_pc[p] = "next"
                               /\ fetch_arg[p] = s
                               /\ fetch_result'[p].kind = "ok" =>
                                     \A i \in 1..Len(fetch_result'[p].docs) :
                                         LET d == fetch_result'[p].docs[i].json
                                         IN /\ d \in 1..Len(source[s])
                                            /\ source[s][d] = "doc"
                                            /\ d > fetch_start[p]
                                            /\ d <= cursors'[s].pos
      ]_vars

\* session 1 was fetched to its end and then cancelled; session 2 is still
\* registered at position 0 with batch size 50
C35_Witness ==
    /\ 1 \in cancelled
    /\ delivered[1] = <<1>>
    /\ 2 \in DOMAIN cursors
    /\ cursors[2] = [stream |-> <<"doc">>, pos |-> 0, batch_size |-> 50]


(* ------------------- properties of the polling helper ------------------ *)

\* C36: the count returned by poll_change_stream_events for a stream is
\* the number of events in the buffer that get_change_stream_events reads
\* for that stream (the static CHANGE_STREAM_EVENTS), in every state.
C36_PollCountIsBufferSize ==
    \A s \in 1..next_stream :
        poll_change_stream_events(s) =
            IF s \in DOMAIN CHANGE_STREAM_EVENTS
            THEN Len(CHANGE_STREAM_EVENTS[s])
            ELSE 0

====
